---- MODULE Spec2Model ----
(***************************************************************************)
(* Model of the Duo broker client of the vehicle-app SDK:                  *)
(*   BrokerClient (getDatapoints / setDatapoints / subscribe),             *)
(*   BrokerAsyncGrpcFacade (GetDatapoints / SetDatapoints / Subscribe),    *)
(*   DuoTypeConverter (toDuoValue / fromDuoValue / path conversion).       *)
(*                                                                         *)
(* Strings are sequences of atoms.  An atom is one delimiter character     *)
(* ("." or "/") or a chunk of characters that holds no delimiter, so that  *)
(* replacing, splitting and joining on delimiters act on atoms.            *)
(* Wire numbers (protobuf doubles) are fixed-point integers counting       *)
(* tenths: 1005 is 100.5.                                                  *)
(***************************************************************************)
EXTENDS Integers, Sequences, FiniteSets, TLC

VARIABLES invoked, callData, activeCalls, rpcs, net, handlerLog, result,
          subscription, codec

vars == <<invoked, callData, activeCalls, rpcs, net, handlerLog, result,
          subscription, codec>>

brokerVars == <<invoked, callData, activeCalls, rpcs, net, handlerLog, result,
                subscription>>

----------------------------------------------------------------------------
(* Bounds of the model *)

MaxCalls == 1

MaxCompletions == 2

MaxUpdates == 2

----------------------------------------------------------------------------
(* Strings *)

Concat(a, b) == a \o b

\* s occurs in t as a contiguous run of atoms
IsInfix(s, t) ==
    \E i \in 0..(Len(t) - Len(s)) : SubSeq(t, i + 1, i + Len(s)) = s

StrReplace(s, from, to) ==
    [i \in 1..Len(s) |-> IF s[i] = from THEN to ELSE s[i]]

\* a variant that replaces the first '.' only
Mut_toDuoPath_FirstOnly(path) ==
    [i \in 1..Len(path) |->
        IF path[i] = "." /\ \A j \in 1..(i - 1) : path[j] # "." THEN "/" ELSE path[i]]

toDuoPath(path) == StrReplace(path, ".", "/")

toInternalPath(path) == StrReplace(path, "/", ".")

----------------------------------------------------------------------------
(* google.protobuf.Value *)

WNull == [kind |-> "null"]
WUnset == [kind |-> "unset"]
WBool(b) == [kind |-> "bool", b |-> b]
WNum(n) == [kind |-> "number", num |-> n]
\* a wire number that is an integer of more than eight digits, too large to
\* be counted in tenths: its sign and its decimal digits
WBigNum(neg, mag) == [kind |-> "number", neg |-> neg, big |-> mag]
IsBigNum(value) == "big" \in DOMAIN value
\* the double held by a typed value
NumData(value) ==
    IF IsBigNum(value) THEN [neg |-> value.neg, big |-> value.big]
    ELSE [num |-> value.num]
WStr(s) == [kind |-> "string", str |-> s]
WList(es) == [kind |-> "list", elems |-> es]
\* fields: the entries <<key, value>> of the struct in the iteration order of
\* its map, which protobuf leaves unspecified
WStruct(fs) == [kind |-> "struct", fields |-> fs]
Field(k, v) == [key |-> k, val |-> v]

----------------------------------------------------------------------------
(* DataPointValue / TypedDataPointValue<T> *)

ScalarTypes == {"BOOL", "INT8", "INT16", "INT32", "INT64", "UINT8", "UINT16",
                "UINT32", "UINT64", "FLOAT", "DOUBLE", "STRING"}

ElemType ==
    [t \in {"BOOL_ARRAY", "INT8_ARRAY", "INT16_ARRAY", "INT32_ARRAY",
            "INT64_ARRAY", "UINT8_ARRAY", "UINT16_ARRAY", "UINT32_ARRAY",
            "UINT64_ARRAY", "FLOAT_ARRAY", "DOUBLE_ARRAY", "STRING_ARRAY"} |->
        CASE t = "BOOL_ARRAY" -> "BOOL"
          [] t = "INT8_ARRAY" -> "INT8"
          [] t = "INT16_ARRAY" -> "INT16"
          [] t = "INT32_ARRAY" -> "INT32"
          [] t = "INT64_ARRAY" -> "INT64"
          [] t = "UINT8_ARRAY" -> "UINT8"
          [] t = "UINT16_ARRAY" -> "UINT16"
          [] t = "UINT32_ARRAY" -> "UINT32"
          [] t = "UINT64_ARRAY" -> "UINT64"
          [] t = "FLOAT_ARRAY" -> "FLOAT"
          [] t = "DOUBLE_ARRAY" -> "DOUBLE"
          [] t = "STRING_ARRAY" -> "STRING"]

ArrayTypes == DOMAIN ElemType

SupportedTypes == ScalarTypes \cup ArrayTypes

IntegralTypes == {"INT8", "INT16", "INT32", "INT64",
                  "UINT8", "UINT16", "UINT32", "UINT64"}

FloatingTypes == {"FLOAT", "DOUBLE"}

\* the wire number (tenths) of an integer
Tenths(n) == n * 10

makeTypedValue(path, type, data) ==
    [path |-> path, type |-> type, failure |-> "NONE", data |-> data]

makeFailedValue(path, type, failure) ==
    [path |-> path, type |-> type, failure |-> failure]

isValid(dpv) == dpv.failure = "NONE"

----------------------------------------------------------------------------
(* BrokerClient.cpp: helpers of the anonymous namespace *)

RECURSIVE joinPathSegments(_)
joinPathSegments(segments) ==
    IF segments = << >> THEN << >>
    ELSE LET init == joinPathSegments(SubSeq(segments, 1, Len(segments) - 1))
             segment == segments[Len(segments)]
         IN  IF segment = << >> THEN init
             ELSE IF init # << >> THEN init \o <<"/">> \o segment
             ELSE segment

\* The result of a call that may throw: Thrown, or Returned(v)
Thrown == [thrown |-> TRUE]
Returned(v) == [thrown |-> FALSE, value |-> v]

\* a variant that gives a number the type FLOAT instead of DOUBLE
Mut_convert_NumberIsFloat(path, value) ==
    CASE value.kind = "string" ->
             Returned(makeTypedValue(path, "STRING", [str |-> value.str]))
      [] value.kind = "bool" ->
             Returned(makeTypedValue(path, "BOOL", [b |-> value.b]))
      [] value.kind = "number" ->
             Returned(makeTypedValue(path, "FLOAT", NumData(value)))
      [] value.kind = "null" ->
             Returned(makeFailedValue(path, "DOUBLE", "NOT_AVAILABLE"))
      [] OTHER -> Thrown

convertDuoResponseToDataPointValue(path, value) ==
    CASE value.kind = "string" ->
             Returned(makeTypedValue(path, "STRING", [str |-> value.str]))
      [] value.kind = "bool" ->
             Returned(makeTypedValue(path, "BOOL", [b |-> value.b]))
      [] value.kind = "number" ->
             Returned(makeTypedValue(path, "DOUBLE", NumData(value)))
      [] value.kind = "null" ->
             Returned(makeFailedValue(path, "DOUBLE", "NOT_AVAILABLE"))
      [] OTHER -> Thrown

\* The pairs <<path, leaf>> appended to leafValues, in the order of the walk
RECURSIVE collectValuePaths(_, _)
RECURSIVE collectFields(_, _, _)
collectFields(fields, i, currentPath) ==
    IF i > Len(fields) THEN << >>
    ELSE collectValuePaths(fields[i].val, Append(currentPath, fields[i].key))
         \o collectFields(fields, i + 1, currentPath)

collectValuePaths(value, currentPath) ==
    IF value.kind = "struct" THEN collectFields(value.fields, 1, currentPath)
    ELSE IF currentPath # << >>
         THEN << [path |-> joinPathSegments(currentPath), leaf |-> value] >>
         ELSE << >>

----------------------------------------------------------------------------
(* DataPointReply, AsyncResult<T>, AsyncSubscription<T> *)

EmptyMap == << >>

DataPointReply(dataPointsMap) == [map |-> dataPointsMap, resp |-> [hasItem |-> FALSE, other |-> 0]]

setDuoGetResponse(reply, response) == [reply EXCEPT !.resp = response]

empty(reply) == DOMAIN reply.map = {}

\* DataPointReply::getUntyped: the entry of the map, or InvalidValueException
getUntyped(reply, path) ==
    IF path \in DOMAIN reply.map
    THEN [thrown |-> FALSE, value |-> reply.map[path]]
    ELSE [thrown |-> TRUE]

NullPtr == [ptr |-> "null"]

\* DataPointReply::get: the data point's own conversion of the response
\* item, or a null pointer when the response holds no item
get(reply, dataPoint) ==
    IF reply.resp.hasItem
    THEN [ptr |-> "converted", path |-> dataPoint, item |-> reply.resp.item]
    ELSE NullPtr

\* duo::GetResponse carrying an item; `other` is the number of characters of
\* the debug text of whatever else the message holds
WithItem(v) == [hasItem |-> TRUE, item |-> v, other |-> 0]

NoItem(n) == [hasItem |-> FALSE, other |-> n]

EmptyResult == [state |-> "empty"]

\* no AsyncResult reached the caller (subscribe, or the operation threw)
NoResult == [state |-> "unreturned"]

insertResult(res, value) ==
    IF res.state = "empty" THEN [state |-> "value", value |-> value] ELSE res

insertError(res, status) ==
    IF res.state = "empty" THEN [state |-> "error", status |-> status] ELSE res

insertNewItem(sub, item) == Append(sub, [entry |-> "item", reply |-> item])

insertSubscriptionError(sub, status) ==
    Append(sub, [entry |-> "error", status |-> status])

Status(message) == message

----------------------------------------------------------------------------
(* BrokerClient: the callbacks handed to the facade *)

FindTgtLen == 5

\* str.substr(str.find("item ") + find_tgt.length()) on the debug text of a
\* message: when the target is absent find returns npos, npos + 5 wraps to 4
\* in size_t, and substr throws std::out_of_range iff 4 > size
SubstrAfterTargetThrows(found, size) == ~found /\ FindTgtLen - 1 > size

\* what a caller callback did: whether it threw, and the container it left
Outcome(thrown, container) == [thrown |-> thrown, container |-> container]

\* a variant without the try/catch around the conversion: the exception
\* leaves the callback before insertResult
Mut_GetReplyLambda_NoCatch(res, datapoints, reply) ==
    LET path == datapoints[1]
        converted == convertDuoResponseToDataPointValue(path, reply.item)
    IN  IF SubstrAfterTargetThrows(reply.hasItem, reply.other)
           \/ (reply.hasItem /\ converted.thrown)
        THEN Outcome(TRUE, res)
        ELSE Outcome(FALSE,
                 insertResult(res,
                     setDuoGetResponse(
                         DataPointReply(IF reply.hasItem
                                        THEN [p \in {path} |-> converted.value]
                                        ELSE EmptyMap),
                         reply)))

GetReplyLambda(res, datapoints, reply) ==
    LET path == datapoints[1]
    IN  IF SubstrAfterTargetThrows(reply.hasItem, reply.other)
        THEN Outcome(TRUE, res)
        ELSE LET converted == convertDuoResponseToDataPointValue(path, reply.item)
                 dataPointsMap ==
                     IF reply.hasItem /\ ~converted.thrown
                     THEN [p \in {path} |-> converted.value]
                     ELSE EmptyMap
                 rep == setDuoGetResponse(DataPointReply(dataPointsMap), reply)
             IN  Outcome(FALSE, insertResult(res, rep))

GetErrorLambda(res, status) ==
    Outcome(FALSE, insertError(res,
        Status(<<"RPC 'GetDatapoints' failed: ">> \o status.msg)))

SetReplyLambda(res, reply) ==
    IF SubstrAfterTargetThrows(FALSE, reply.other)
    THEN Outcome(TRUE, res)
    ELSE Outcome(FALSE, insertResult(res, EmptyMap))

SetErrorLambda(res, status) ==
    Outcome(FALSE, insertError(res,
        Status(<<"RPC 'SetDatapoints' failed: ">> \o status.msg)))

\* a variant that also forwards a top-level bool
Mut_PathValuesOf_ForwardsBool(query, value) ==
    CASE value.kind \in {"number", "string", "bool"} -> << [path |-> query, leaf |-> value] >>
      [] value.kind = "struct" -> collectValuePaths(value, << >>)
      [] OTHER -> << >>

\* pathValueList of the stream callback for one top-level value of the update
PathValuesOf(query, value) ==
    CASE value.kind = "number" -> << [path |-> query, leaf |-> value] >>
      [] value.kind = "string" -> << [path |-> query, leaf |-> value] >>
      [] value.kind = "struct" -> collectValuePaths(value, << >>)
      [] OTHER -> << >>

RECURSIVE PathValueList(_, _)
PathValueList(query, values) ==
    IF values = << >> THEN << >>
    ELSE PathValuesOf(query, Head(values)) \o PathValueList(query, Tail(values))

\* the reply built for one <<path, leaf>> pair of pathValueList
StreamItemReply(path, leaf) ==
    setDuoGetResponse(DataPointReply(EmptyMap), WithItem(leaf))

RECURSIVE InsertItems(_, _)
InsertItems(sub, pathValueList) ==
    IF pathValueList = << >> THEN sub
    ELSE InsertItems(
             insertNewItem(sub, StreamItemReply(Head(pathValueList).path,
                                                Head(pathValueList).leaf)),
             Tail(pathValueList))

SubscribeStreamLambda(sub, query, item) ==
    Outcome(FALSE, InsertItems(sub, PathValueList(query, item.items)))

SubscribeErrorLambda(sub, status) ==
    Outcome(FALSE, insertSubscriptionError(sub,
        Status(<<"RPC 'Subscribe' failed: ">> \o status.msg)))

----------------------------------------------------------------------------
(* TypeConverter.cpp: path walking *)

\* the index of the first "." of path at or after start, 0 when there is none
RECURSIVE FindDot(_, _)
FindDot(path, start) ==
    IF start > Len(path) THEN 0
    ELSE IF path[start] = "." THEN start
    ELSE FindDot(path, start + 1)

\* start is the 1-based position of the while loop of splitPath
RECURSIVE splitPathFrom(_, _)
splitPathFrom(path, start) ==
    IF start > Len(path) THEN << >>
    ELSE LET next == FindDot(path, start)
         IN  IF next = 0 THEN << SubSeq(path, start, Len(path)) >>
             ELSE IF next > start
             THEN << SubSeq(path, start, next - 1) >> \o splitPathFrom(path, next + 1)
             ELSE splitPathFrom(path, next + 1)

splitPath(path) == splitPathFrom(path, 1)

NotFound == [found |-> FALSE]

Found(v) == [found |-> TRUE, value |-> v]

\* structure.fields().find(key)
RECURSIVE FindField(_, _)
FindField(fields, key) ==
    IF fields = << >> THEN NotFound
    ELSE IF Head(fields).key = key THEN Found(Head(fields).val)
    ELSE FindField(Tail(fields), key)

accessField(structure, key) ==
    IF FindField(structure.fields, key).found THEN FindField(structure.fields, key)
    ELSE FindField(structure.fields, StrReplace(key, ".", "/"))

\* segments[index..] joined by "/"
RECURSIVE Combined(_, _)
Combined(segments, index) ==
    IF index = Len(segments) THEN segments[index]
    ELSE segments[index] \o <<"/">> \o Combined(segments, index + 1)

\* the for loop of locateLeaf from `index` on, at node `current`
RECURSIVE locateLeafFrom(_, _, _)
locateLeafFrom(current, segments, index) ==
    IF index > Len(segments) THEN Found(current)
    ELSE IF current.kind # "struct" THEN Found(current)
    ELSE LET direct == accessField(current, segments[index])
             next == IF direct.found THEN direct
                     ELSE accessField(current, Combined(segments, index))
         IN  IF ~next.found THEN NotFound
             ELSE locateLeafFrom(next.value, segments, index + 1)

\* a variant that finds nothing when the root is not a struct
Mut_locateLeaf_NoEarlyStop(root, segments) ==
    IF segments = << >> THEN Found(root)
    ELSE IF root.kind # "struct" THEN NotFound
    ELSE locateLeafFrom(root, segments, 1)

locateLeaf(root, segments) ==
    IF root.kind # "struct" \/ segments = << >> THEN Found(root)
    ELSE locateLeafFrom(root, segments, 1)

----------------------------------------------------------------------------
(* TypeConverter.cpp: scalar conversions *)

\* std::tolower on the atoms of the model
LowerAtom(a) ==
    CASE a \in {"TRUE", "True"} -> "true"
      [] a \in {"FALSE", "False"} -> "false"
      [] OTHER -> a

toLowerCopy(value) == [i \in 1..Len(value) |-> LowerAtom(value[i])]

DigitAtoms == <<"0", "1", "2", "3", "4", "5", "6", "7", "8", "9",
                "a", "b", "c", "d", "e", "f">>

UpperHexAtoms == <<"A", "B", "C", "D", "E", "F">>

\* the value of a character as a digit, 16 when it is none
DigitValue(a) ==
    IF \E i \in 1..Len(DigitAtoms) : DigitAtoms[i] = a
    THEN (CHOOSE i \in 1..Len(DigitAtoms) : DigitAtoms[i] = a) - 1
    ELSE IF \E i \in 1..Len(UpperHexAtoms) : UpperHexAtoms[i] = a
    THEN (CHOOSE i \in 1..Len(UpperHexAtoms) : UpperHexAtoms[i] = a) + 9
    ELSE 16

IsDigit(a, base) == DigitValue(a) < base

\* Natural numbers of any size (unsigned long long, long double): their
\* decimal digits, most significant first, none for zero
RECURSIVE StripZeros(_)
StripZeros(d) == IF d # << >> /\ Head(d) = 0 THEN StripZeros(Tail(d)) ELSE d

RECURSIVE NatDigits(_)
NatDigits(n) == IF n = 0 THEN << >> ELSE NatDigits(n \div 10) \o <<n % 10>>

Reverse(s) == [i \in 1..Len(s) |-> s[Len(s) + 1 - i]]

\* rev * m + carry on digits given least significant first
RECURSIVE MulAddRev(_, _, _)
MulAddRev(rev, m, carry) ==
    IF rev = << >>
    THEN IF carry = 0 THEN << >>
         ELSE <<carry % 10>> \o MulAddRev(<< >>, m, carry \div 10)
    ELSE LET t == Head(rev) * m + carry
         IN  <<t % 10>> \o MulAddRev(Tail(rev), m, t \div 10)

BigMulAdd(b, m, d) ==
    IF b = << >> THEN NatDigits(d)
    ELSE StripZeros(Reverse(MulAddRev(Reverse(b), m, d)))

BigLess(a, b) ==
    \/ Len(a) < Len(b)
    \/ /\ Len(a) = Len(b)
       /\ \E i \in 1..Len(a) : a[i] < b[i] /\ \A j \in 1..(i - 1) : a[j] = b[j]

BigLeq(a, b) == a = b \/ BigLess(a, b)

\* a - b on digits given least significant first, for a >= b
RECURSIVE SubRev(_, _, _)
SubRev(a, b, borrow) ==
    IF a = << >> THEN << >>
    ELSE LET y == (IF b = << >> THEN 0 ELSE Head(b)) + borrow
             rest == IF b = << >> THEN << >> ELSE Tail(b)
         IN  IF Head(a) >= y
             THEN <<Head(a) - y>> \o SubRev(Tail(a), rest, 0)
             ELSE <<Head(a) + 10 - y>> \o SubRev(Tail(a), rest, 1)

BigSub(a, b) == StripZeros(Reverse(SubRev(Reverse(a), Reverse(b), 0)))

\* the quotient and the remainder of a division by two: the remainder carried
\* into a digit is the parity of the digit before it
BigHalve(b) ==
    [q |-> StripZeros([i \in 1..Len(b) |->
                          ((IF i > 1 THEN b[i - 1] % 2 ELSE 0) * 10 + b[i]) \div 2]),
     r |-> IF b = << >> THEN 0 ELSE b[Len(b)] % 2]

RECURSIVE NatOfBig(_)
NatOfBig(b) ==
    IF b = << >> THEN 0 ELSE NatOfBig(SubSeq(b, 1, Len(b) - 1)) * 10 + b[Len(b)]

\* 2^24: below it every integer is a float
Two24 == <<1, 6, 7, 7, 7, 2, 1, 6>>

\* 2^53: below it every integer is a double
Two53 == <<9, 0, 0, 7, 1, 9, 9, 2, 5, 4, 7, 4, 0, 9, 9, 2>>

\* 2^64
Two64 == <<1, 8, 4, 4, 6, 7, 4, 4, 0, 7, 3, 7, 0, 9, 5, 5, 1, 6, 1, 6>>

\* m * 2^k
RECURSIVE BigScale(_, _)
BigScale(m, k) ==
    IF k <= 27 THEN BigMulAdd(m, 2 ^ k, 0)
    ELSE BigScale(BigMulAdd(m, 2 ^ 27, 0), k - 27)

\* q * 2^k with the bits shifted out so far (the last one, and whether an
\* earlier one was set) rounded to nearest, ties to even, on the bits of the
\* mantissa (q < limit)
RECURSIVE RoundToMantissa(_, _, _, _, _)
RoundToMantissa(limit, q, k, round, sticky) ==
    IF BigLess(q, limit)
    THEN LET odd == q # << >> /\ q[Len(q)] % 2 = 1
             up == round = 1 /\ (sticky \/ odd)
         IN  BigScale(IF up THEN BigMulAdd(q, 1, 1) ELSE q, k)
    ELSE RoundToMantissa(limit, BigHalve(q).q, k + 1, BigHalve(q).r,
                         sticky \/ round = 1)

\* the double nearest to a natural number (static_cast<double>, std::stod)
BigToDouble(b) == RoundToMantissa(Two53, b, 0, 0, FALSE)

\* the float nearest to a natural number plus a fraction below one
BigToFloat(b, fraction) == RoundToMantissa(Two24, b, 0, 0, fraction)

\* an integer: its sign and its magnitude
BigInt(neg, mag) == [neg |-> neg /\ mag # << >>, mag |-> mag]

IntOf(n) == BigInt(n < 0, NatDigits(IF n < 0 THEN 0 - n ELSE n))

\* the payload of an integral TypedDataPointValue: [int] up to nine digits,
\* [neg, big] beyond
IntData(x) ==
    IF Len(x.mag) <= 9
    THEN [int |-> IF x.neg THEN 0 - NatOfBig(x.mag) ELSE NatOfBig(x.mag)]
    ELSE [neg |-> x.neg, big |-> x.mag]

IntOfData(data) ==
    IF "int" \in DOMAIN data THEN IntOf(data.int) ELSE BigInt(data.neg, data.big)

\* the wire number of an integer: static_cast<double>
IntToDuo(x) ==
    IF Len(x.mag) <= 8 THEN WNum(Tenths(IF x.neg THEN 0 - NatOfBig(x.mag)
                                        ELSE NatOfBig(x.mag)))
    ELSE WBigNum(x.neg, BigToDouble(x.mag))

\* the position after the longest run of digits of `base` in str from
\* position i on
RECURSIVE RunEnd(_, _, _)
RunEnd(str, i, base) ==
    IF i <= Len(str) /\ IsDigit(str[i], base) THEN RunEnd(str, i + 1, base) ELSE i

\* the number written by the digits str[from..to] in `base`
RECURSIVE DigitsValue(_, _, _, _)
DigitsValue(str, from, to, base) ==
    IF to < from THEN << >>
    ELSE BigMulAdd(DigitsValue(str, from, to - 1, base), base, DigitValue(str[to]))

\* the value of the longest run of digits of `base` in str from position i
\* on, and the position after it
ScanDigits(str, i, base) ==
    [value |-> DigitsValue(str, i, RunEnd(str, i, base) - 1, base),
     idx |-> RunEnd(str, i, base)]

\* the position of the first character of str at or after i that is no space
RECURSIVE SkipSpace(_, _)
SkipSpace(str, i) ==
    IF i <= Len(str) /\ str[i] = " " THEN SkipSpace(str, i + 1) ELSE i

\* std::stoll / std::stoull with base 0: leading spaces, an optional sign,
\* then "0x" and hexadecimal digits, or "0" and octal digits, or decimal
\* digits; `digits` is how many digits were consumed and idx how many
\* characters
ParseInteger(str) ==
    LET sign == SkipSpace(str, 1)
        signed == sign <= Len(str) /\ str[sign] \in {"-", "+"}
        first == IF signed THEN sign + 1 ELSE sign
        hex == /\ first + 2 <= Len(str)
               /\ str[first] = "0"
               /\ str[first + 1] \in {"x", "X"}
               /\ IsDigit(str[first + 2], 16)
        octal == ~hex /\ first <= Len(str) /\ str[first] = "0"
        start == IF hex THEN first + 2 ELSE first
        scan == ScanDigits(str, start, IF hex THEN 16 ELSE IF octal THEN 8 ELSE 10)
    IN  [digits |-> scan.idx - start,
         negative |-> signed /\ str[sign] = "-",
         magnitude |-> scan.value,
         idx |-> scan.idx - 1]

IsUnsigned(type) == type \in {"UINT8", "UINT16", "UINT32", "UINT64"}

\* std::numeric_limits<T>::max()
MaxOf(type) ==
    CASE type = "INT8" -> <<1, 2, 7>>
      [] type = "INT16" -> <<3, 2, 7, 6, 7>>
      [] type = "INT32" -> <<2, 1, 4, 7, 4, 8, 3, 6, 4, 7>>
      [] type = "INT64" -> <<9, 2, 2, 3, 3, 7, 2, 0, 3, 6, 8, 5, 4, 7, 7, 5, 8, 0, 7>>
      [] type = "UINT8" -> <<2, 5, 5>>
      [] type = "UINT16" -> <<6, 5, 5, 3, 5>>
      [] type = "UINT32" -> <<4, 2, 9, 4, 9, 6, 7, 2, 9, 5>>
      [] type = "UINT64" -> BigSub(Two64, <<1>>)

\* the magnitude of std::numeric_limits<T>::min()
MinMagOf(type) == IF IsUnsigned(type) THEN << >> ELSE BigMulAdd(MaxOf(type), 1, 1)

\* x lies in [numeric_limits<T>::min(), numeric_limits<T>::max()]
InRange(type, x) ==
    IF x.neg THEN BigLeq(x.mag, MinMagOf(type)) ELSE BigLeq(x.mag, MaxOf(type))

\* a variant that drops the fraction
Mut_NearbyInt_Truncates(n) == IF n >= 0 THEN n \div 10 ELSE 0 - ((0 - n) \div 10)

\* std::nearbyintl of a number given in tenths (ties to even)
NearbyInt(n) ==
    LET q == n \div 10
        r == n % 10
    IN  IF r < 5 THEN q
        ELSE IF r > 5 THEN q + 1
        ELSE IF q % 2 = 0 THEN q ELSE q + 1

\* std::nearbyintl of a wire number
Rounded(value) ==
    IF IsBigNum(value) THEN BigInt(value.neg, value.big) ELSE IntOf(NearbyInt(value.num))

convertToIntegral(type, value) ==
    CASE value.kind = "string" ->
             LET parsed == ParseInteger(value.str)
             IN  IF parsed.digits = 0 THEN Thrown
                 ELSE IF IsUnsigned(type)
                 THEN \* std::stoull: out of range beyond 2^64 - 1, and a
                      \* negative literal is negated in 64 bits
                      IF ~BigLess(parsed.magnitude, Two64) THEN Thrown
                      ELSE IF parsed.idx # Len(value.str) THEN Thrown
                      ELSE LET x == IF parsed.negative /\ parsed.magnitude # << >>
                                    THEN BigInt(FALSE, BigSub(Two64, parsed.magnitude))
                                    ELSE BigInt(FALSE, parsed.magnitude)
                           IN  IF BigLeq(x.mag, MaxOf(type))
                               THEN Returned(IntData(x))
                               ELSE Thrown
                 ELSE LET x == BigInt(parsed.negative, parsed.magnitude)
                      IN  IF ~InRange("INT64", x) THEN Thrown
                          ELSE IF parsed.idx # Len(value.str) THEN Thrown
                          ELSE IF InRange(type, x) THEN Returned(IntData(x))
                          ELSE Thrown
      [] value.kind = "bool" -> Returned([int |-> IF value.b THEN 1 ELSE 0])
      [] value.kind = "number" ->
             IF InRange(type, Rounded(value))
             THEN Returned(IntData(Rounded(value)))
             ELSE Thrown
      [] OTHER -> Thrown

convertToBool(value) ==
    CASE value.kind = "bool" -> Returned([b |-> value.b])
      [] value.kind = "number" -> Returned([b |-> IsBigNum(value) \/ value.num # 0])
      [] value.kind = "string" ->
             IF toLowerCopy(value.str) \in {<<"true">>, <<"1">>}
             THEN Returned([b |-> TRUE])
             ELSE IF toLowerCopy(value.str) \in {<<"false">>, <<"0">>}
             THEN Returned([b |-> FALSE])
             ELSE Thrown
      [] OTHER -> Thrown

\* std::stod on a decimal literal without exponent: leading spaces, an
\* optional sign, digits, and an optional "." with digits. Up to eight digits
\* before the point the value keeps the first fraction digit (the numbers of
\* the model are tenths); beyond, it is the double nearest to the integer part
ParseDouble(str) ==
    LET sign == SkipSpace(str, 1)
        signed == sign <= Len(str) /\ str[sign] \in {"-", "+"}
        neg == signed /\ str[sign] = "-"
        first == IF signed THEN sign + 1 ELSE sign
        int == ScanDigits(str, first, 10)
        hasPoint == int.idx <= Len(str) /\ str[int.idx] = "."
        frac == IF hasPoint THEN ScanDigits(str, int.idx + 1, 10)
                ELSE [value |-> << >>, idx |-> int.idx]
        fracDigits == IF hasPoint THEN frac.idx - (int.idx + 1) ELSE 0
        tenths == NatOfBig(int.value) * 10
                  + (IF fracDigits > 0 THEN DigitValue(str[int.idx + 1]) ELSE 0)
    IN  [digits |-> (int.idx - first) + fracDigits,
         value |-> IF Len(int.value) <= 8
                   THEN [num |-> IF neg THEN 0 - tenths ELSE tenths]
                   ELSE [neg |-> neg, big |-> BigToDouble(int.value)],
         idx |-> frac.idx - 1]

convertToDouble(value) ==
    CASE value.kind = "number" -> Returned(NumData(value))
      [] value.kind = "bool" -> Returned([num |-> IF value.b THEN Tenths(1) ELSE 0])
      [] value.kind = "string" ->
             LET parsed == ParseDouble(value.str)
             IN  IF parsed.digits = 0 \/ parsed.idx # Len(value.str) THEN Thrown
                 ELSE Returned(parsed.value)
      [] OTHER -> Thrown

\* static_cast<float> of a double: a number of the model below 2^24 keeps
\* its name, a larger one is rounded to the 24 bits of the mantissa
FloatCast(data) ==
    IF "num" \in DOMAIN data
    THEN LET m == IF data.num < 0 THEN 0 - data.num ELSE data.num
             f == BigToFloat(NatDigits(m \div 10), m % 10 # 0)
         IN  IF m < 167772160 THEN data
             ELSE IF Len(f) <= 8
             THEN [num |-> IF data.num < 0 THEN 0 - Tenths(NatOfBig(f))
                           ELSE Tenths(NatOfBig(f))]
             ELSE [neg |-> data.num < 0, big |-> f]
    ELSE [neg |-> data.neg, big |-> BigToFloat(data.big, FALSE)]

RECURSIVE StripTrailingZeros(_)
StripTrailingZeros(d) ==
    IF d # << >> /\ d[Len(d)] = 0 THEN StripTrailingZeros(SubSeq(d, 1, Len(d) - 1))
    ELSE d

\* the characters of a sequence of decimal digits
DigitsOf(d) == [i \in 1..Len(d) |-> DigitAtoms[d[i] + 1]]

\* operator<< of a non-zero double whose decimal digits are d, the first one
\* counting 10^e: six significant digits, trailing zeros removed, scientific
\* notation when the exponent is below -4 or at least 6 (printf's %g)
FormatG(neg, d, e) ==
    LET up == /\ Len(d) > 6
              /\ \/ d[7] > 5
                 \/ /\ d[7] = 5
                    /\ ((\E i \in 8..Len(d) : d[i] # 0) \/ d[6] % 2 = 1)
        six == IF Len(d) <= 6 THEN d
               ELSE IF up THEN BigMulAdd(SubSeq(d, 1, 6), 1, 1)
               ELSE SubSeq(d, 1, 6)
        carry == Len(six) = 7
        sig == StripTrailingZeros(IF carry THEN <<1>> ELSE six)
        x == IF carry THEN e + 1 ELSE e
        ax == IF x < 0 THEN 0 - x ELSE x
        zeros(k) == [i \in 1..k |-> "0"]
        fraction(ds) == IF ds = << >> THEN << >> ELSE <<".">> \o DigitsOf(ds)
        body == IF x < 0 - 4 \/ x >= 6
                THEN DigitsOf(<<sig[1]>>) \o fraction(Tail(sig))
                     \o <<"e", IF x < 0 THEN "-" ELSE "+">>
                     \o (IF ax < 10 THEN <<"0">> ELSE << >>) \o DigitsOf(NatDigits(ax))
                     \o (IF ax = 0 THEN <<"0">> ELSE << >>)
                ELSE IF x >= 0
                THEN IF Len(sig) >= x + 1
                     THEN DigitsOf(SubSeq(sig, 1, x + 1))
                          \o fraction(SubSeq(sig, x + 2, Len(sig)))
                     ELSE DigitsOf(sig) \o zeros(x + 1 - Len(sig))
                ELSE <<"0", ".">> \o zeros(ax - 1) \o DigitsOf(sig)
    IN  (IF neg THEN <<"-">> ELSE << >>) \o body

\* operator<< of a double given in tenths
FormatNumber(n) ==
    LET m == IF n < 0 THEN 0 - n ELSE n
    IN  IF n = 0 THEN <<"0">>
        ELSE FormatG(n < 0, NatDigits(m), Len(NatDigits(m)) - 2)

convertToString(value) ==
    CASE value.kind = "string" -> Returned([str |-> value.str])
      [] value.kind = "bool" ->
             Returned([str |-> IF value.b THEN <<"true">> ELSE <<"false">>])
      [] value.kind = "number" ->
             Returned([str |-> IF IsBigNum(value)
                               THEN FormatG(value.neg, value.big, Len(value.big) - 1)
                               ELSE FormatNumber(value.num)])
      [] value.kind = "null" -> Returned([str |-> << >>])
      [] OTHER -> Thrown

\* static_cast<float>(convertToDouble(entry))
FloatOf(converted) ==
    IF converted.thrown THEN Thrown ELSE Returned(FloatCast(converted.value))

convertToFloat(value) == FloatOf(convertToDouble(value))

ConvertScalar(type, value) ==
    CASE type = "BOOL" -> convertToBool(value)
      [] type \in IntegralTypes -> convertToIntegral(type, value)
      [] type = "FLOAT" -> convertToFloat(value)
      [] type = "DOUBLE" -> convertToDouble(value)
      [] type = "STRING" -> convertToString(value)

\* the vector filled by emplace_back from the outcomes of the converter, one
\* per element: Thrown when a conversion threw
EmplacedBack(converted) ==
    IF \E i \in 1..Len(converted) : converted[i].thrown THEN Thrown
    ELSE Returned([elems |-> [i \in 1..Len(converted) |-> converted[i].value]])

\* a variant that leaves out the elements whose conversion fails
Mut_convertList_SkipsFailed(type, value) ==
    IF value.kind # "list" THEN Thrown
    ELSE LET kept == SelectSeq(value.elems,
                               LAMBDA e : ~ConvertScalar(type, e).thrown)
         IN  Returned([elems |-> [i \in 1..Len(kept) |->
                                      ConvertScalar(type, kept[i]).value]])

\* a variant that fills the result from the last element to the first
Mut_convertList_Reversed(type, value) ==
    IF value.kind # "list" THEN Thrown
    ELSE IF \E i \in 1..Len(value.elems) : ConvertScalar(type, value.elems[i]).thrown
    THEN Thrown
    ELSE Returned([elems |-> [i \in 1..Len(value.elems) |->
             ConvertScalar(type, value.elems[Len(value.elems) + 1 - i]).value]])

\* convertList<T>(value, converter): every element converted, Thrown as soon
\* as one fails or when value is no list
convertList(type, value) ==
    IF value.kind # "list" THEN Thrown
    ELSE EmplacedBack([i \in 1..Len(value.elems) |->
                          ConvertScalar(type, value.elems[i])])

----------------------------------------------------------------------------
(* DuoTypeConverter::toDuoValue *)

\* the payload of a TypedDataPointValue<T>: [b], [int], [num], [str] or, for
\* an array, [elems] holding such payloads
HoldsScalar(type, data) ==
    CASE type = "BOOL" -> DOMAIN data = {"b"}
      [] type \in IntegralTypes -> DOMAIN data \in {{"int"}, {"neg", "big"}}
      [] type \in FloatingTypes -> DOMAIN data \in {{"num"}, {"neg", "big"}}
      [] type = "STRING" -> DOMAIN data = {"str"}
      [] OTHER -> FALSE

\* requireTyped<T> succeeds: the object is a TypedDataPointValue<T>
requireTyped(type, data) ==
    IF type \in ArrayTypes
    THEN /\ DOMAIN data = {"elems"}
         /\ \A i \in 1..Len(data.elems) : HoldsScalar(ElemType[type], data.elems[i])
    ELSE HoldsScalar(type, data)

ScalarToDuo(type, data) ==
    CASE type = "BOOL" -> WBool(data.b)
      [] type \in IntegralTypes -> IntToDuo(IntOfData(data))
      [] type \in FloatingTypes ->
             IF "num" \in DOMAIN data THEN WNum(data.num)
             ELSE WBigNum(data.neg, data.big)
      [] type = "STRING" -> WStr(data.str)

\* a variant that looks at the type tag before the failure state
Mut_toDuoValue_TypeBeforeValidity(dataPointValue) ==
    IF dataPointValue.type \notin SupportedTypes THEN Thrown
    ELSE IF ~isValid(dataPointValue) THEN Returned(WNull)
    ELSE IF ~requireTyped(dataPointValue.type, dataPointValue.data) THEN Thrown
    ELSE IF dataPointValue.type \in ArrayTypes
    THEN Returned(WList([i \in 1..Len(dataPointValue.data.elems) |->
             ScalarToDuo(ElemType[dataPointValue.type],
                         dataPointValue.data.elems[i])]))
    ELSE Returned(ScalarToDuo(dataPointValue.type, dataPointValue.data))

toDuoValue(dataPointValue) ==
    IF ~isValid(dataPointValue) THEN Returned(WNull)
    ELSE IF dataPointValue.type \notin SupportedTypes THEN Thrown
    ELSE IF ~requireTyped(dataPointValue.type, dataPointValue.data) THEN Thrown
    ELSE IF dataPointValue.type \in ArrayTypes
    THEN Returned(WList([i \in 1..Len(dataPointValue.data.elems) |->
             ScalarToDuo(ElemType[dataPointValue.type],
                         dataPointValue.data.elems[i])]))
    ELSE Returned(ScalarToDuo(dataPointValue.type, dataPointValue.data))

----------------------------------------------------------------------------
(* DuoTypeConverter::fromDuoValue *)

\* the switch taken when the leaf is null
\* a variant in which a null leaf of expected type STRING is the empty string
Mut_NullLeafValue_StringIsEmpty(path, expectedType) ==
    IF expectedType = "STRING"
    THEN Returned(makeTypedValue(path, "STRING", [str |-> << >>]))
    ELSE IF expectedType \in SupportedTypes
    THEN Returned(makeFailedValue(path, expectedType, "NOT_AVAILABLE"))
    ELSE Thrown

NullLeafValue(path, expectedType) ==
    IF expectedType \in SupportedTypes
    THEN Returned(makeFailedValue(path, expectedType, "NOT_AVAILABLE"))
    ELSE Thrown

\* the switch taken when the leaf is not null
TypedValueOf(path, expectedType, data) ==
    IF data.thrown THEN Thrown
    ELSE Returned(makeTypedValue(path, expectedType, data.value))

ConvertLeaf(path, expectedType, leaf) ==
    IF expectedType \notin SupportedTypes THEN Thrown
    ELSE TypedValueOf(path, expectedType,
                      IF expectedType \in ArrayTypes
                      THEN convertList(ElemType[expectedType], leaf)
                      ELSE ConvertScalar(expectedType, leaf))

\* a variant that reads a missing path as a null leaf
Mut_fromDuoValue_MissingIsNull(path, expectedType, value) ==
    LET leaf == locateLeaf(value, splitPath(path))
    IN  IF ~leaf.found \/ leaf.value.kind = "null"
        THEN NullLeafValue(path, expectedType)
        ELSE ConvertLeaf(path, expectedType, leaf.value)

fromDuoValue(path, expectedType, value) ==
    LET leaf == locateLeaf(value, splitPath(path))
    IN  IF ~leaf.found THEN Thrown
        ELSE IF leaf.value.kind = "null" THEN NullLeafValue(path, expectedType)
        ELSE ConvertLeaf(path, expectedType, leaf.value)

----------------------------------------------------------------------------
(* std::map<std::string, google::protobuf::Value> *)

\* the atoms of the model in the byte order of their first character
AtomOrder == <<"'", ".", "/", "0", "1", "2", "Name", "Speed", "Vehicle">>

AtomRank(a) == CHOOSE i \in 1..Len(AtomOrder) : AtomOrder[i] = a

\* operator< of std::string
RECURSIVE StrLess(_, _)
StrLess(a, b) ==
    IF b = << >> THEN FALSE
    ELSE IF a = << >> THEN TRUE
    ELSE IF Head(a) = Head(b) THEN StrLess(Tail(a), Tail(b))
    ELSE AtomRank(Head(a)) < AtomRank(Head(b))

\* a variant that behaves as insert_or_assign: a later value replaces the
\* entry of its key
RECURSIVE Mut_MapEmplace_Assigns(_, _, _)
Mut_MapEmplace_Assigns(m, key, value) ==
    IF m = << >> THEN << [key |-> key, val |-> value] >>
    ELSE IF Head(m).key = key THEN << [key |-> key, val |-> value] >> \o Tail(m)
    ELSE IF StrLess(key, Head(m).key) THEN << [key |-> key, val |-> value] >> \o m
    ELSE << Head(m) >> \o Mut_MapEmplace_Assigns(Tail(m), key, value)

\* map.emplace(key, value): the entries stay sorted by key and an entry whose
\* key is already present is left as it is
RECURSIVE MapEmplace(_, _, _)
MapEmplace(m, key, value) ==
    IF m = << >> THEN << [key |-> key, val |-> value] >>
    ELSE IF Head(m).key = key THEN m
    ELSE IF StrLess(key, Head(m).key) THEN << [key |-> key, val |-> value] >> \o m
    ELSE << Head(m) >> \o MapEmplace(Tail(m), key, value)

\* the loop of BrokerClient::setDatapoints: Thrown as soon as a value fails
\* to encode, else the map of path -> wire value
RECURSIVE EncodeDatapoints(_, _)
EncodeDatapoints(datapoints, datapoints_map) ==
    IF datapoints = << >> THEN Returned(datapoints_map)
    ELSE LET value == toDuoValue(Head(datapoints))
         IN  IF value.thrown THEN Thrown
             ELSE EncodeDatapoints(Tail(datapoints),
                      MapEmplace(datapoints_map, Head(datapoints).path, value.value))

----------------------------------------------------------------------------
(* BrokerAsyncGrpcFacade *)

NotIssued == [issued |-> FALSE]

Issue(method, request) == [issued |-> TRUE, method |-> method, request |-> request]

\* a variant that names the last path of the list
Mut_GetDatapoints_LastPath(datapoints) ==
    IF datapoints = << >> THEN NotIssued
    ELSE Issue("GetReport",
               [thing |-> <<"vss">>,
                path |-> toDuoPath(datapoints[Len(datapoints)])])

\* a variant without the early return on an empty list
Mut_GetDatapoints_NoEarlyReturn(datapoints) ==
    Issue("GetReport",
          [thing |-> <<"vss">>,
           path |-> IF datapoints = << >> THEN << >> ELSE toDuoPath(Head(datapoints))])

GetDatapoints(datapoints) ==
    IF datapoints = << >> THEN NotIssued
    ELSE Issue("GetReport",
               [thing |-> <<"vss">>, path |-> toDuoPath(Head(datapoints))])

\* a variant that converts the delimiters of the target as GetDatapoints does
Mut_SetDatapoints_SlashTarget(datapoints_map) ==
    IF datapoints_map = << >> THEN NotIssued
    ELSE LET firstEntry == Head(datapoints_map)
         IN  Issue("CreateJob",
                   [thing |-> <<"vss">>,
                    document |-> WStruct(<<Field(<<"action">>, WStr(<<"set">>)),
                                           Field(<<"target">>,
                                                 WStr(toDuoPath(firstEntry.key))),
                                           Field(<<"value">>, firstEntry.val)>>)])

SetDatapoints(datapoints_map) ==
    IF datapoints_map = << >> THEN NotIssued
    ELSE LET firstEntry == Head(datapoints_map)
         IN  Issue("CreateJob",
                   [thing |-> <<"vss">>,
                    document |-> WStruct(<<Field(<<"action">>, WStr(<<"set">>)),
                                           Field(<<"target">>, WStr(firstEntry.key)),
                                           Field(<<"value">>, firstEntry.val)>>)])

Subscribe(targets) ==
    Issue("ListenReport",
          [thing |-> <<"vss">>,
           needs_initial_value |-> TRUE,
           filters |-> IF targets # << >> THEN <<toDuoPath(Head(targets))>>
                       ELSE << >>])

\* the metadata of the service, captured by the context modifier that the
\* BrokerClient constructor installs
Metadata == {[key |-> <<"k">>, value |-> <<"v">>]}

applyContextModifier(context) == context \cup Metadata

addActiveCall(calls, call) == calls \cup {call}

\* grpcResultHandler: the caller callback a completion status is routed to
\* a variant that runs the reply handler whatever the status
Mut_grpcResultHandler_AlwaysReply(status) == "reply"

grpcResultHandler(status) == IF status.ok THEN "reply" ELSE "error"

\* onFinish of the streaming call: whether errorHandler is invoked
\* a variant that reports every finish as an error
Mut_onFinish_Always(status) == TRUE

onFinish(status) == ~status.ok

----------------------------------------------------------------------------
(* Inputs: what the application passes in and what the broker sends back *)

P_Speed == <<"Vehicle", ".", "Speed">>

P_Name == <<"Vehicle", ".", "Name">>

Paths == {P_Speed, P_Name}

DatapointLists == {<< >>, <<P_Speed>>, <<P_Speed, P_Name>>,
                   <<P_Name, P_Speed, P_Speed>>}

\* the declared type of a signal of the vehicle model
DeclaredType(path) == IF path = P_Speed THEN "FLOAT" ELSE "STRING"

V_Speed == makeTypedValue(P_Speed, "FLOAT", [num |-> 1293])

V_Name == makeTypedValue(P_Name, "STRING", [str |-> <<"car">>])

V_SpeedNA == makeFailedValue(P_Speed, "FLOAT", "NOT_AVAILABLE")

V_Speed2 == makeTypedValue(P_Speed, "FLOAT", [num |-> 500])

V_Unsupported == makeTypedValue(P_Name, "INVALID", [str |-> <<"car">>])

\* a value whose declared type is not the type of what it stores
V_Mismatch == makeTypedValue(P_Name, "INT32", [str |-> <<"car">>])

\* a value of an unsupported type in a failure state
V_UnsupportedNA == makeFailedValue(P_Name, "INVALID", "NOT_AVAILABLE")

ValueLists == {<< >>, <<V_Speed>>, <<V_Speed, V_Name>>, <<V_Name, V_Speed2>>,
               <<V_SpeedNA, V_Speed>>, <<V_Speed, V_Unsupported>>,
               <<V_Mismatch, V_Speed>>, <<V_UnsupportedNA>>}

S_Speed == WStruct(<<Field(<<"Speed">>, WNum(1005))>>)

S_Nested == WStruct(<<Field(<<"x">>, WStruct(<<Field(<<"y">>, WNum(10)),
                                               Field(<<"z">>, WNum(20))>>))>>)

\* a struct whose only key is the empty string
S_EmptyKey == WStruct(<<Field(<< >>, WNum(30))>>)

ItemValues == {WNum(1005), WStr(<<"on">>), WBool(TRUE), WNull,
               WList(<<WNum(10)>>), S_Speed}

OtherTextSizes == {0, 12}

GetResponses == {WithItem(v) : v \in ItemValues} \cup {NoItem(n) : n \in OtherTextSizes}

CreateJobResponses == {[other |-> n] : n \in OtherTextSizes}

ListenResponse(values) == [items |-> values]

ListenResponses ==
    {ListenResponse(<<S_Speed>>),
     ListenResponse(<<WBool(TRUE), S_Nested, WNum(20), WNull>>),
     ListenResponse(<<WStr(<<"on">>), WList(<<WNum(10)>>)>>),
     ListenResponse(<<S_EmptyKey, WNum(20)>>)}

OkStatus == [ok |-> TRUE, msg |-> << >>]

ErrorStatuses == {[ok |-> FALSE, msg |-> <<"unavailable">>]}

Statuses == {OkStatus} \cup ErrorStatuses

----------------------------------------------------------------------------
(* State *)

NoCall == [issued |-> FALSE]

\* the response buffer of a call object before the transport has written it
DefaultResponse(method) ==
    CASE method = "GetReport" -> NoItem(0)
      [] method = "CreateJob" -> [other |-> 0]
      [] method = "ListenReport" -> ListenResponse(<< >>)

NoCodec == [op |-> "none"]

Init ==
    /\ invoked = << >>
    /\ callData = << >>
    /\ activeCalls = {}
    /\ rpcs = << >>
    /\ net = << >>
    /\ handlerLog = << >>
    /\ result = << >>
    /\ subscription = << >>
    /\ codec = NoCodec

Ids == 1..Len(invoked)

\* The facade part of an operation: the call object is created, and unless
\* the facade returned early it gets its request and context, is registered
\* and is handed to the transport.
FacadeCall(id, call, phase) ==
    IF call.issued
    THEN /\ callData' = Append(callData,
                [issued |-> TRUE, request |-> call.request,
                 response |-> DefaultResponse(call.method),
                 context |-> applyContextModifier({}), isComplete |-> FALSE])
         /\ activeCalls' = addActiveCall(activeCalls, id)
         /\ rpcs' = Append(rpcs, [id |-> id, method |-> call.method,
                                  request |-> call.request])
         /\ net' = Append(net, [phase |-> phase, completions |-> << >>,
                                received |-> << >>])
    ELSE /\ callData' = Append(callData, NoCall)
         /\ net' = Append(net, [phase |-> "none", completions |-> << >>,
                                received |-> << >>])
         /\ UNCHANGED <<activeCalls, rpcs>>

\* BrokerClient::getDatapoints
getDatapoints(datapoints) ==
    /\ Len(invoked) < MaxCalls
    /\ invoked' = Append(invoked, [op |-> "get", datapoints |-> datapoints])
    /\ result' = Append(result, EmptyResult)
    /\ subscription' = Append(subscription, << >>)
    /\ handlerLog' = Append(handlerLog, << >>)
    /\ FacadeCall(Len(invoked) + 1, GetDatapoints(datapoints), "inflight")
    /\ UNCHANGED codec

\* BrokerClient::setDatapoints
setDatapoints(datapoints) ==
    /\ Len(invoked) < MaxCalls
    /\ invoked' = Append(invoked, [op |-> "set", datapoints |-> datapoints])
    /\ subscription' = Append(subscription, << >>)
    /\ handlerLog' = Append(handlerLog, << >>)
    /\ LET encoded == EncodeDatapoints(datapoints, << >>)
       IN  IF encoded.thrown
           THEN /\ result' = Append(result, NoResult)
                /\ FacadeCall(Len(invoked) + 1, NotIssued, "none")
           ELSE /\ result' = Append(result, EmptyResult)
                /\ FacadeCall(Len(invoked) + 1, SetDatapoints(encoded.value), "inflight")
    /\ UNCHANGED codec

\* BrokerClient::subscribe
subscribe(query) ==
    /\ Len(invoked) < MaxCalls
    /\ invoked' = Append(invoked, [op |-> "sub", query |-> query])
    /\ result' = Append(result, NoResult)
    /\ subscription' = Append(subscription, << >>)
    /\ handlerLog' = Append(handlerLog, << >>)
    /\ FacadeCall(Len(invoked) + 1, Subscribe(<<toDuoPath(query)>>), "open")
    /\ UNCHANGED codec

\* what the caller callback chosen by grpcResultHandler does to the AsyncResult
UnaryCallback(inv, res, status, response) ==
    IF inv.op = "get"
    THEN IF grpcResultHandler(status) = "reply"
         THEN GetReplyLambda(res, inv.datapoints, response)
         ELSE GetErrorLambda(res, status)
    ELSE IF grpcResultHandler(status) = "reply"
         THEN SetReplyLambda(res, response)
         ELSE SetErrorLambda(res, status)

\* The transport runs the completion callback of unary call id with `status`
\* after leaving `response` in the call's response buffer.
RunCompletion(id, status, response) ==
    LET out == UnaryCallback(invoked[id], result[id], status, response)
    IN  /\ result' = [result EXCEPT ![id] = out.container]
        /\ handlerLog' = [handlerLog EXCEPT ![id] =
               Append(@, [handler |-> grpcResultHandler(status),
                          thrown |-> out.thrown])]
        /\ callData' = [callData EXCEPT ![id].isComplete = TRUE,
                                        ![id].response = response]
        /\ net' = [net EXCEPT ![id].phase = "completed",
                              ![id].completions = Append(@, status)]
        /\ UNCHANGED <<invoked, activeCalls, rpcs, subscription, codec>>

\* what the transport may write into the response buffer of call id before
\* it completes the call with `status`
ResponsesOf(id, status) ==
    IF ~status.ok THEN {callData[id].response}
    ELSE IF invoked[id].op = "get" THEN GetResponses
    ELSE CreateJobResponses

\* the transport completes an RPC it was handed
Complete ==
    \E id \in Ids, status \in Statuses :
        /\ net[id].phase = "inflight"
        /\ \E response \in ResponsesOf(id, status) :
               RunCompletion(id, status, response)

\* a misbehaving transport runs the completion callback of a call again,
\* with any status, over the response buffer as it stands
CompleteAgain ==
    \E id \in Ids, status \in Statuses :
        /\ net[id].phase = "completed"
        /\ Len(net[id].completions) < MaxCompletions
        /\ RunCompletion(id, status, callData[id].response)

\* the stream of subscription id delivers one update: onData -> streamHandler
StreamData ==
    \E id \in Ids, item \in ListenResponses :
        /\ net[id].phase = "open"
        /\ Len(net[id].received) < MaxUpdates
        /\ LET out == SubscribeStreamLambda(subscription[id], invoked[id].query, item)
           IN  /\ subscription' = [subscription EXCEPT ![id] = out.container]
               /\ handlerLog' = [handlerLog EXCEPT ![id] =
                      Append(@, [handler |-> "data", thrown |-> out.thrown])]
        /\ net' = [net EXCEPT ![id].received = Append(@, item)]
        /\ UNCHANGED <<invoked, callData, activeCalls, rpcs, result, codec>>

\* the stream of subscription id ends with `status`: onFinish
StreamFinish ==
    \E id \in Ids, status \in Statuses :
        /\ net[id].phase = "open"
        /\ IF onFinish(status)
           THEN LET out == SubscribeErrorLambda(subscription[id], status)
                IN  /\ subscription' = [subscription EXCEPT ![id] = out.container]
                    /\ handlerLog' = [handlerLog EXCEPT ![id] =
                           Append(@, [handler |-> "error", thrown |-> out.thrown])]
           ELSE UNCHANGED <<subscription, handlerLog>>
        /\ callData' = [callData EXCEPT ![id].isComplete = TRUE]
        /\ net' = [net EXCEPT ![id].phase = "finished",
                              ![id].completions = Append(@, status)]
        /\ UNCHANGED <<invoked, activeCalls, rpcs, result, codec>>

Get == \E datapoints \in DatapointLists : getDatapoints(datapoints)

Set == \E datapoints \in ValueLists : setDatapoints(datapoints)

Sub == \E query \in Paths : subscribe(query)

Next ==
    \/ Get
    \/ Set
    \/ Sub
    \/ Complete
    \/ CompleteAgain
    \/ StreamData
    \/ StreamFinish

Spec == Init /\ [][Next]_vars

----------------------------------------------------------------------------
(* Claims about the one-shot operations *)

UnaryIds == {id \in Ids : invoked[id].op \in {"get", "set"}}

GetIds == {id \in Ids : invoked[id].op = "get"}

SubIds == {id \in Ids : invoked[id].op = "sub"}

Resolved(res) == res.state \in {"value", "error"}

\* C1: every AsyncResult that getDatapoints or setDatapoints returned is
\* resolved (Value or Error) once the transport has completed every RPC it
\* was handed for the call, whatever the input, the empty list included.
C1_ResolvedOnceTransportIsDone ==
    \A id \in UnaryIds :
        (result[id] # NoResult /\ net[id].phase # "inflight") => Resolved(result[id])

\* the first completion of get call id was OK and its item does not convert
ConversionFailed(id) ==
    /\ net[id].completions # << >>
    /\ Head(net[id].completions).ok
    /\ callData[id].response.hasItem
    /\ callData[id].response.item.kind \notin {"string", "bool", "number", "null"}

C3_CompletionRunsOneCallback ==
    \A id \in UnaryIds :
        /\ Len(handlerLog[id]) = Len(net[id].completions)
        /\ \A i \in 1..Len(handlerLog[id]) :
               /\ net[id].completions[i].ok => handlerLog[id][i].handler = "reply"
               /\ ~net[id].completions[i].ok => handlerLog[id][i].handler = "error"
        /\ (net[id].completions # << >> /\ ~Head(net[id].completions).ok) =>
               /\ result[id].state = "error"
               /\ IsInfix(Head(net[id].completions).msg, result[id].status)

C3_Witness ==
    \E id \in UnaryIds :
        /\ net[id].completions # << >>
        /\ ~Head(net[id].completions).ok
        /\ result[id].state = "error"

\* the only entry of the reply of get call id
EntryOf(id) == result[id].value.map[invoked[id].datapoints[1]]

HasEntry(id) == result[id].state = "value" /\ ~empty(result[id].value)

\* C4 as claimed: the typed value stored in the reply of getDatapoints has
\* the declared type of the requested signal, whatever the wire kind.
C4_ReplyTypeIsDeclaredType ==
    \A id \in GetIds :
        HasEntry(id) => EntryOf(id).type = DeclaredType(invoked[id].datapoints[1])

\* C4 as amended: the type of the reply entry is determined by the kind of
\* the wire value, not by the signal: string -> STRING, bool -> BOOL,
\* number -> DOUBLE, null -> DOUBLE in the failure state NOT_AVAILABLE.
C4_ReplyTypeFollowsWireKind ==
    \A id \in GetIds :
        HasEntry(id) =>
            LET kind == result[id].value.resp.item.kind
                entry == EntryOf(id)
            IN  /\ kind = "string" => entry.type = "STRING" /\ isValid(entry)
                /\ kind = "bool" => entry.type = "BOOL" /\ isValid(entry)
                /\ kind = "number" => entry.type = "DOUBLE" /\ isValid(entry)
                /\ kind = "null" => entry.type = "DOUBLE"
                                    /\ entry.failure = "NOT_AVAILABLE"
                /\ kind \in {"string", "bool", "number", "null"}

C4_Witness ==
    \E id \in GetIds :
        /\ HasEntry(id)
        /\ EntryOf(id).type # DeclaredType(invoked[id].datapoints[1])
        /\ result[id].value.resp.item.kind = "number"

\* C5: getDatapoints with n >= 1 paths issues exactly one RPC, which names
\* the first path only (with '/' for '.'); the reply holds at most one entry,
\* keyed by the first path, and none for the other paths.
C5_OnlyFirstPathIsHonored ==
    \A id \in GetIds :
        invoked[id].datapoints # << >> =>
            /\ Cardinality({i \in 1..Len(rpcs) : rpcs[i].id = id}) = 1
            /\ \A i \in 1..Len(rpcs) :
                   rpcs[i].id = id =>
                       /\ rpcs[i].method = "GetReport"
                       /\ toInternalPath(rpcs[i].request.path) = invoked[id].datapoints[1]
                       /\ "." \notin {rpcs[i].request.path[k] :
                                         k \in 1..Len(rpcs[i].request.path)}
            /\ result[id].state = "value" =>
                   DOMAIN result[id].value.map \subseteq {invoked[id].datapoints[1]}

C5_Witness ==
    \E id \in GetIds :
        /\ Len(invoked[id].datapoints) >= 2
        /\ invoked[id].datapoints[1] # invoked[id].datapoints[2]
        /\ HasEntry(id)

----------------------------------------------------------------------------
(* Claims about subscribe *)

ItemsOf(log) == SelectSeq(log, LAMBDA e : e.entry = "item")

ErrorsOf(log) == SelectSeq(log, LAMBDA e : e.entry = "error")

\* the number of non-struct leaves of a wire value
RECURSIVE LeafCount(_)
RECURSIVE LeafCountOfFields(_)
LeafCountOfFields(fields) ==
    IF fields = << >> THEN 0
    ELSE LeafCount(Head(fields).val) + LeafCountOfFields(Tail(fields))

LeafCount(value) ==
    IF value.kind = "struct" THEN LeafCountOfFields(value.fields) ELSE 1

RECURSIVE LeafCountOfValues(_)
LeafCountOfValues(values) ==
    IF values = << >> THEN 0
    ELSE LeafCount(Head(values)) + LeafCountOfValues(Tail(values))

RECURSIVE LeafCountOfUpdates(_)
LeafCountOfUpdates(updates) ==
    IF updates = << >> THEN 0
    ELSE LeafCountOfValues(Head(updates).items) + LeafCountOfUpdates(Tail(updates))

\* C6: every leaf of every streamed update is inserted into the
\* AsyncSubscription as its own item, no leaf dropped and none inserted
\* twice, and each item is a reply with exactly one entry (path -> value).
C6_EveryLeafIsASingleEntryItem ==
    \A id \in SubIds :
        LET items == ItemsOf(subscription[id])
        IN  /\ Len(items) = LeafCountOfUpdates(net[id].received)
            /\ \A i \in 1..Len(items) : Cardinality(DOMAIN items[i].reply.map) = 1

\* C7: after subscribe("Vehicle.Speed") and one update holding the struct
\* {"Speed": 100.5}, the subscription holds exactly one item, and the item
\* carries the path "Vehicle.Speed" with the decoded value 100.5.
C7_SpeedUpdateEndToEnd ==
    \A id \in SubIds :
        (invoked[id].query = P_Speed
         /\ net[id].received = <<ListenResponse(<<S_Speed>>)>>) =>
            LET items == ItemsOf(subscription[id])
            IN  /\ Len(items) = 1
                /\ DOMAIN items[1].reply.map = {P_Speed}
                /\ isValid(items[1].reply.map[P_Speed])
                /\ items[1].reply.map[P_Speed].data = [num |-> 1005]

\* the leaves the stream callback delivers for one value of an update, in
\* the order of the struct's fields
RECURSIVE LeavesOf(_)
RECURSIVE LeavesOfFields(_)
LeavesOfFields(fields) ==
    IF fields = << >> THEN << >>
    ELSE LeavesOf(Head(fields).val) \o LeavesOfFields(Tail(fields))

LeavesOf(value) ==
    IF value.kind = "struct" THEN LeavesOfFields(value.fields) ELSE <<value>>

DeliveredOf(value) ==
    IF value.kind \in {"number", "string", "struct"} THEN LeavesOf(value) ELSE << >>

RECURSIVE DeliveredOfValues(_)
DeliveredOfValues(values) ==
    IF values = << >> THEN << >>
    ELSE DeliveredOf(Head(values)) \o DeliveredOfValues(Tail(values))

RECURSIVE DeliveredOfUpdates(_)
DeliveredOfUpdates(updates) ==
    IF updates = << >> THEN << >>
    ELSE DeliveredOfValues(Head(updates).items) \o DeliveredOfUpdates(Tail(updates))

FinishedWithError(id) ==
    net[id].phase = "finished" /\ ~Head(net[id].completions).ok

\* C8: the items of a subscription appear in the order the updates were
\* received and, within an update, in the order of its values; an Error is
\* inserted at most once, exactly when the stream finished with a non-OK
\* status (a finish with OK inserts nothing), and nothing follows the Error.
C8_ItemsInReceiptOrderThenOneError ==
    \A id \in SubIds :
        LET log == subscription[id]
            items == ItemsOf(log)
        IN  /\ [i \in 1..Len(items) |-> items[i].reply.resp.item]
                   = DeliveredOfUpdates(net[id].received)
            /\ Len(ErrorsOf(log)) = IF FinishedWithError(id) THEN 1 ELSE 0
            /\ \A i \in 1..Len(log) : log[i].entry = "error" => i = Len(log)

C8_Witness ==
    \E id \in SubIds :
        /\ FinishedWithError(id)
        /\ Len(net[id].received) >= 2
        /\ net[id].received[1] # net[id].received[2]
        /\ Len(DeliveredOfValues(net[id].received[1].items)) >= 1
        /\ Len(DeliveredOfValues(net[id].received[2].items)) >= 2
        /\ Len(ErrorsOf(subscription[id])) = 1

\* C9: when the transport runs the completion callback of a unary call more
\* than once, the value or error observed on the AsyncResult is the one set
\* by the first completion.
C9_FirstCompletionDecides ==
    \A id \in UnaryIds :
        Resolved(result[id]) =>
            result[id] = UnaryCallback(invoked[id], EmptyResult,
                                       Head(net[id].completions),
                                       callData[id].response).container

\* once an AsyncResult is resolved, no later completion changes it
ResolvedNeverChanges ==
    [][\A id \in UnaryIds : Resolved(result[id]) => result'[id] = result[id]]_vars

----------------------------------------------------------------------------
(* The converter applied to bounded inputs *)

CodecPaths == {P_Speed, <<"Speed">>, << >>}

ExpectedTypes == SupportedTypes \cup {"INVALID"}

S_Vehicle(leaf) == WStruct(<<Field(<<"Vehicle">>, WStruct(<<Field(<<"Speed">>, leaf)>>))>>)

S_Composite(leaf) == WStruct(<<Field(<<"Name">>, WNum(10)),
                               Field(<<"Vehicle", "/", "Speed">>, leaf)>>)

CodecLeaves == {WNull, WBool(TRUE), WNum(1005), WNum(-15), WNum(3000),
                WStr(<<"4", "2">>), WStr(<<"-", "1">>), WStr(<<"True">>),
                WStr(<<"on">>), WStr(<< >>),
                WList(<< >>), WList(<<WNum(10), WNull>>),
                WList(<<WNum(10), WStr(<<"2">>)>>)}

Payloads == CodecLeaves
            \cup {S_Vehicle(l) : l \in CodecLeaves}
            \cup {S_Composite(l) : l \in CodecLeaves}
            \cup {WStruct(<<Field(<<"Name">>, WNull)>>)}

InitCodec ==
    /\ invoked = << >>
    /\ callData = << >>
    /\ activeCalls = {}
    /\ rpcs = << >>
    /\ net = << >>
    /\ handlerLog = << >>
    /\ result = << >>
    /\ subscription = << >>
    /\ codec = NoCodec

\* DuoTypeConverter::fromDuoValue applied to one input
Decode ==
    /\ codec = NoCodec
    /\ \E path \in CodecPaths, expectedType \in ExpectedTypes, value \in Payloads :
           codec' = [op |-> "fromDuoValue", path |-> path,
                     expectedType |-> expectedType, value |-> value,
                     out |-> fromDuoValue(path, expectedType, value)]
    /\ UNCHANGED brokerVars

\* the values of type T a caller may hold: the bounds of T and values between
IntSamples(type) ==
    {IntData(IntOf(0)), IntData(IntOf(42)),
     IntData(BigInt(FALSE, MaxOf(type))),
     IntData(BigInt(TRUE, MinMagOf(type)))}
    \cup (IF type \in {"INT64", "UINT64"}
          THEN {IntData(BigInt(FALSE, Two53)),
                IntData(BigInt(FALSE, BigMulAdd(Two53, 1, 1)))}
          ELSE {})

ScalarSamples(type) ==
    CASE type = "BOOL" -> {[b |-> TRUE], [b |-> FALSE]}
      [] type \in IntegralTypes -> IntSamples(type)
      [] type \in FloatingTypes -> {[num |-> 1005], [num |-> -15], [num |-> 0]}
      [] type = "STRING" -> {[str |-> << >>], [str |-> <<"4", "2">>],
                             [str |-> <<"on">>]}

ArraySamples(type) ==
    LET few == IF Cardinality(ScalarSamples(type)) <= 3 THEN ScalarSamples(type)
               ELSE ScalarSamples(type) \ {IntData(IntOf(42))}
    IN  {[elems |-> << >>]}
        \cup {[elems |-> <<a>>] : a \in few}
        \cup {[elems |-> <<a, b>>] : a \in few, b \in few}
        \cup {[elems |-> <<a, b, a>>] : a \in few, b \in few}

\* the typed values given to toDuoValue
TypedValues ==
    UNION {{makeTypedValue(P_Speed, type, data) : data \in ScalarSamples(type)} :
              type \in ScalarTypes}
    \cup UNION {{makeTypedValue(P_Speed, type, data) :
                    data \in ArraySamples(ElemType[type])} : type \in ArrayTypes}
    \cup {makeFailedValue(P_Speed, type, "NOT_AVAILABLE") : type \in {"INT8", "STRING"}}

\* fromDuoValue(path, T, toDuoValue(v)) for one typed value v
RoundTrip ==
    /\ codec = NoCodec
    /\ \E v \in TypedValues :
           LET wire == toDuoValue(v)
           IN  codec' = [op |-> "roundTrip", v |-> v, wire |-> wire,
                         out |-> IF wire.thrown THEN Thrown
                                 ELSE fromDuoValue(v.path, v.type, wire.value)]
    /\ UNCHANGED brokerVars

\* string values of a leaf read as integers
IntegerStrings ==
    {<<"4", "2">>, <<"0">>, <<"-", "0">>, <<"-", "1">>, <<"+", "7">>,
     <<" ", "4", "2">>, <<"0", "x", "1", "F">>, <<"0", "1", "0">>, <<"0", "8">>,
     <<"4", "x">>, << >>, <<"-">>, <<"4", ".", "0">>,
     [i \in 1..20 |-> "9"],
     <<"-">> \o DigitsOf(BigSub(Two64, MaxOf("UINT8"))),
     DigitsOf(Two64), <<"-">> \o DigitsOf(Two64)}
    \cup UNION {{DigitsOf(MaxOf(t)), DigitsOf(BigMulAdd(MaxOf(t), 1, 1))} :
                   t \in IntegralTypes}
    \cup UNION {{<<"-">> \o DigitsOf(MinMagOf(t)),
                 <<"-">> \o DigitsOf(BigMulAdd(MinMagOf(t), 1, 1))} :
                   t \in {"INT8", "INT16", "INT32", "INT64"}}

\* number values of a leaf read as integers: tenths around the bounds of the
\* 8- and 16-bit types, doubles around the bounds of the 32- and 64-bit types
IntegerNumbers ==
    {WNum(n) : n \in {0, 4, 5, 15, 19, 25, -4, -5, -15, 420,
                      1270, 1274, 1275, 1280, -1280, -1285, -1286, -1290,
                      2550, 2554, 2555, 2560,
                      327670, 327675, 327680, -327680, -327690,
                      655350, 655355, 655360}}
    \cup {WBigNum(FALSE, MaxOf("INT32")), WBigNum(FALSE, MinMagOf("INT32")),
          WBigNum(TRUE, MinMagOf("INT32")),
          WBigNum(TRUE, BigMulAdd(MinMagOf("INT32"), 1, 1)),
          WBigNum(FALSE, MaxOf("UINT32")),
          WBigNum(FALSE, BigMulAdd(MaxOf("UINT32"), 1, 1)),
          WBigNum(FALSE, Two53),
          WBigNum(FALSE, BigSub(MinMagOf("INT64"), <<1, 0, 2, 4>>)),
          WBigNum(FALSE, MinMagOf("INT64")), WBigNum(TRUE, MinMagOf("INT64")),
          WBigNum(TRUE, BigMulAdd(MinMagOf("INT64"), 1, 2048)),
          WBigNum(FALSE, BigSub(Two64, <<2, 0, 4, 8>>)),
          WBigNum(FALSE, Two64)}

IntegerLeaves ==
    {WStr(str) : str \in IntegerStrings} \cup IntegerNumbers
    \cup {WBool(TRUE), WBool(FALSE), WNull, WList(<<WNum(10)>>)}

\* convertToIntegral<T> applied to one leaf
ConvertIntegral ==
    /\ codec = NoCodec
    /\ \E type \in IntegralTypes, value \in IntegerLeaves :
           codec' = [op |-> "convertToIntegral", type |-> type, value |-> value,
                     out |-> convertToIntegral(type, value)]
    /\ UNCHANGED brokerVars

\* trees of nested structs, among them some that key a whole sub-path as
\* one flattened string, and the segments looked for in them
LeafTrees ==
    {WNum(50),
     WStruct(<< >>),
     WStruct(<<Field(<<"a">>, WStruct(<<Field(<<"b">>, WNum(50))>>))>>),
     WStruct(<<Field(<<"a">>, WNull)>>),
     WStruct(<<Field(<<"a">>,
                     WStruct(<<Field(<<"b">>, WStruct(<<Field(<<"c">>, WNum(70))>>))>>))>>),
     WStruct(<<Field(<<"a", "/", "b">>, WNum(50))>>),
     WStruct(<<Field(<<"a", "/", "b">>, WList(<<WNum(10)>>))>>),
     WStruct(<<Field(<<"a", "/", "b">>, WStruct(<<Field(<<"c">>, WNum(10))>>))>>),
     WStruct(<<Field(<<"a", "/", "b">>, WStruct(<<Field(<<"b">>, WNum(90))>>))>>),
     WStruct(<<Field(<<"a">>, WStruct(<<Field(<<"b", "/", "c">>, WNum(30))>>))>>),
     WStruct(<<Field(<<"a">>, WStruct(<<Field(<<"c">>, WNum(10))>>)),
               Field(<<"a", "/", "b">>, WNum(50))>>)}

SegmentLists ==
    {splitPath(path) : path \in {<< >>, <<"a">>, <<"b">>, <<"a", ".", "b">>,
                                 <<"a", ".", "c">>, <<"a", ".", "b", ".", "c">>,
                                 <<".", "a", ".", ".", "b", ".">>}}

\* locateLeaf applied to one tree and one list of segments
Locate ==
    /\ codec = NoCodec
    /\ \E root \in LeafTrees, segments \in SegmentLists :
           codec' = [op |-> "locateLeaf", root |-> root, segments |-> segments,
                     out |-> locateLeaf(root, segments)]
    /\ UNCHANGED brokerVars

\* the struct trees handed to collectValuePaths and the segments that
\* currentPath holds on entry
FlattenTrees ==
    {S_Nested,
     S_Speed,
     WStruct(<< >>),
     WStruct(<<Field(<<"x">>, WList(<<WNum(10)>>)), Field(<<"y">>, WNull)>>),
     WStruct(<<Field(<< >>, WStruct(<<Field(<<"y">>, WNum(10))>>)),
               Field(<<"y">>, WNum(20))>>),
     WStruct(<<Field(<<"x", "/", "y">>, WNum(10)),
               Field(<<"x">>, WStruct(<<Field(<<"y">>, WNum(20))>>))>>)}

FlattenPrefixes == {<< >>, <<<<"p">>>>}

\* collectValuePaths applied to one tree
Flatten ==
    /\ codec = NoCodec
    /\ \E value \in FlattenTrees, currentPath \in FlattenPrefixes :
           codec' = [op |-> "collectValuePaths", value |-> value,
                     currentPath |-> currentPath,
                     out |-> collectValuePaths(value, currentPath)]
    /\ UNCHANGED brokerVars

\* the lists of one to three values handed to setDatapoints
SetValues == {V_Speed, V_Name, V_Speed2, V_SpeedNA}

SetLists ==
    {<<a>> : a \in SetValues}
    \cup {<<a, b>> : a \in SetValues, b \in SetValues}
    \cup {<<a, b, c>> : a \in SetValues, b \in SetValues, c \in SetValues}

\* what BrokerClient::setDatapoints hands to the transport through the
\* facade: Thrown when a value failed to encode
SentFor(encoded) ==
    IF encoded.thrown THEN Thrown ELSE Returned(SetDatapoints(encoded.value))

\* the map loop of BrokerClient::setDatapoints followed by the request that
\* the facade builds
EncodeAndSend ==
    /\ codec = NoCodec
    /\ \E datapoints \in SetLists :
           codec' = [op |-> "setDatapoints", datapoints |-> datapoints,
                     out |-> SentFor(EncodeDatapoints(datapoints, << >>))]
    /\ UNCHANGED brokerVars

MaxPathLen == 4

\* the paths over a name, '.' and '/' of up to MaxPathLen atoms
NormPaths ==
    UNION {[1..n -> {"a", ".", "/"}] : n \in 0..MaxPathLen}

\* toDuoPath and toInternalPath applied to one path, once and again, and the
\* call BrokerClient::subscribe hands to the facade for it
Normalize ==
    /\ codec = NoCodec
    /\ \E path \in NormPaths :
           codec' = [op |-> "normalize", path |-> path,
                     duo |-> toDuoPath(path),
                     duoTwice |-> toDuoPath(toDuoPath(path)),
                     internal |-> toInternalPath(path),
                     internalTwice |-> toInternalPath(toInternalPath(path)),
                     back |-> toInternalPath(toDuoPath(path)),
                     subscribed |-> Subscribe(<<toDuoPath(path)>>)]
    /\ UNCHANGED brokerVars

\* the converter is called again
Reset ==
    /\ codec # NoCodec
    /\ codec' = NoCodec
    /\ UNCHANGED brokerVars

NextCodec ==
    Decode \/ RoundTrip \/ ConvertIntegral \/ Locate \/ Flatten \/ EncodeAndSend
    \/ Normalize \/ Reset

SpecCodec == InitCodec /\ [][NextCodec]_vars

\* the leaf that locateLeaf finds for the input of the last decode is null
DecodedNullLeaf ==
    /\ codec.op = "fromDuoValue"
    /\ locateLeaf(codec.value, splitPath(codec.path)) = Found(WNull)

\* C10: for each of the 24 supported expected types, fromDuoValue on a
\* payload whose located leaf is null returns (never raises) a value of
\* exactly that type in the state Failure(NOT_AVAILABLE); for STRING too, where
\* a null leaf does not become the empty string.
C10_NullLeafIsNotAvailable ==
    (DecodedNullLeaf /\ codec.expectedType \in SupportedTypes) =>
        /\ ~codec.out.thrown
        /\ codec.out.value.type = codec.expectedType
        /\ codec.out.value.failure = "NOT_AVAILABLE"
        /\ ~isValid(codec.out.value)
        /\ "data" \notin DOMAIN codec.out.value

C10_Witness ==
    /\ DecodedNullLeaf
    /\ codec.expectedType = "STRING"
    /\ codec.value = S_Vehicle(WNull)
    /\ codec.path = P_Speed
    /\ ~codec.out.thrown

\* an integer that static_cast<double> keeps
ExactAsDouble(data) == BigToDouble(IntOfData(data).mag) = IntOfData(data).mag

\* every integer of the typed value is one the wire number represents exactly
Representable(v) ==
    IF v.type \in IntegralTypes THEN ExactAsDouble(v.data)
    ELSE IF v.type \in ArrayTypes /\ ElemType[v.type] \in IntegralTypes
    THEN \A i \in 1..Len(v.data.elems) : ExactAsDouble(v.data.elems[i])
    ELSE TRUE

\* C11: for every valid value v of type bool, of the 8 integer types or
\* string, and of the 12 array types, whose integers the wire number
\* represents exactly, fromDuoValue(path, T, toDuoValue(v)) returns a valid
\* value of type T equal to v; an array comes back with the same length and
\* the same elements in the same order.
C11_RoundTrip ==
    (/\ codec.op = "roundTrip"
     /\ isValid(codec.v)
     /\ codec.v.type \in ({"BOOL", "STRING"} \cup IntegralTypes \cup ArrayTypes)
     /\ Representable(codec.v)) =>
        /\ ~codec.wire.thrown
        /\ ~codec.out.thrown
        /\ isValid(codec.out.value)
        /\ codec.out.value.type = codec.v.type
        /\ codec.out.value = codec.v

C11_Witness ==
    /\ codec.op = "roundTrip"
    /\ codec.v.type = "UINT64_ARRAY"
    /\ Len(codec.v.data.elems) = 3
    /\ codec.v.data.elems[1] # codec.v.data.elems[2]
    /\ codec.v.data.elems[1] = IntData(BigInt(FALSE, Two53))
    /\ ~codec.out.thrown
    /\ codec.out.value.data.elems = codec.v.data.elems

\* C12: whenever locateLeaf finds no leaf for the requested path,
\* fromDuoValue raises: it returns neither a Failure(NOT_AVAILABLE) value nor a
\* valid one, whatever the expected type; a leaf that is present and null
\* does not raise (for the 24 supported expected types).
C12_MissingPathRaises ==
    codec.op = "fromDuoValue" =>
        LET leaf == locateLeaf(codec.value, splitPath(codec.path))
        IN  /\ ~leaf.found => codec.out = Thrown
            /\ (leaf.found /\ leaf.value = WNull
                /\ codec.expectedType \in SupportedTypes) => ~codec.out.thrown

C12_Witness ==
    /\ codec.op = "fromDuoValue"
    /\ codec.path = P_Speed
    /\ codec.value = WStruct(<<Field(<<"Name">>, WNull)>>)
    /\ codec.expectedType = "STRING"
    /\ locateLeaf(codec.value, splitPath(codec.path)) = NotFound
    /\ codec.out.thrown

\* the string is a well-formed integer literal: an optional sign and digits
\* (of the base its prefix announces), nothing else
WellFormedInteger(str) ==
    /\ ParseInteger(str).digits > 0
    /\ ParseInteger(str).idx = Len(str)
    /\ " " \notin {str[i] : i \in 1..Len(str)}

\* the mathematical value of a well-formed integer literal
LiteralValue(str) == BigInt(ParseInteger(str).negative, ParseInteger(str).magnitude)

\* C13: for each of the 8 integral types and every well-formed integer
\* literal, decoding the string succeeds iff the literal's mathematical value
\* lies in [min, max] of the type, and then returns exactly that value;
\* otherwise it raises. In particular a negative literal is rejected by every
\* unsigned type.
C13_StringDecodeNeverWraps ==
    (/\ codec.op = "convertToIntegral"
     /\ codec.value.kind = "string"
     /\ WellFormedInteger(codec.value.str)) =>
        LET x == LiteralValue(codec.value.str)
        IN  /\ ~codec.out.thrown <=> InRange(codec.type, x)
            /\ ~codec.out.thrown => codec.out.value = IntData(x)
            /\ (x.neg /\ IsUnsigned(codec.type)) => codec.out.thrown

\* the integer r is a nearest integer of the wire number
IsNearest(r, value) ==
    IF IsBigNum(value) THEN r = BigInt(value.neg, value.big)
    ELSE /\ Len(r.mag) <= 9
         /\ LET i == IF r.neg THEN 0 - NatOfBig(r.mag) ELSE NatOfBig(r.mag)
            IN  10 * i - value.num \in (0 - 5)..5

\* C14: for each of the 8 integral types, a bool decodes to 0 or 1; a finite
\* number decodes to its nearest integer when that integer lies in the
\* type's range and raises when it lies outside; a returned value is always
\* within [min, max] of the type.
C14_NumberDecodeStaysInRange ==
    codec.op = "convertToIntegral" =>
        /\ codec.value.kind = "bool" =>
               codec.out = Returned([int |-> IF codec.value.b THEN 1 ELSE 0])
        /\ codec.value.kind = "number" =>
               /\ codec.out.thrown <=> ~InRange(codec.type, Rounded(codec.value))
               /\ ~codec.out.thrown => IsNearest(IntOfData(codec.out.value), codec.value)
        /\ (codec.value.kind \in {"bool", "number"} /\ ~codec.out.thrown) =>
               InRange(codec.type, IntOfData(codec.out.value))

C14_Witness ==
    /\ codec.op = "convertToIntegral"
    /\ codec.type = "INT8"
    /\ codec.value = WNum(1274)
    /\ codec.out = Returned([int |-> 127])

\* the last decode expected an array and locateLeaf found a leaf that is not
\* null
DecodedArrayLeaf ==
    /\ codec.op = "fromDuoValue"
    /\ codec.expectedType \in ArrayTypes
    /\ locateLeaf(codec.value, splitPath(codec.path)).found
    /\ locateLeaf(codec.value, splitPath(codec.path)).value # WNull

C15_DecodedInOrder ==
    /\ DecodedArrayLeaf
    /\ codec.expectedType = "INT32_ARRAY"
    /\ codec.value = S_Vehicle(WList(<<WNum(10), WStr(<<"2">>)>>))
    /\ codec.path = P_Speed
    /\ ~codec.out.thrown
    /\ codec.out.value.data.elems = <<[int |-> 1], [int |-> 2]>>

----------------------------------------------------------------------------
(* Claims about the requests handed to the transport *)

SetIds == {id \in Ids : invoked[id].op = "set"}

\* the RPCs handed to the transport for call id
RpcsOf(id) == SelectSeq(rpcs, LAMBDA rpc : rpc.id = id)

\* the mapping that BrokerClient::setDatapoints passes to the facade
MappingOf(id) == EncodeDatapoints(invoked[id].datapoints, << >>)

\* C16: for SetDatapoints called with a non-empty mapping exactly one unary
\* job RPC is issued; its document has exactly the fields action = "set",
\* target = the key of the first entry of the mapping, unchanged, and value =
\* the wire value of that entry; no other entry of the mapping is in it.
C16_SetSendsFirstEntryOnly ==
    \A id \in SetIds :
        (~MappingOf(id).thrown /\ MappingOf(id).value # << >>) =>
            LET datapoints_map == MappingOf(id).value
                firstEntry == Head(datapoints_map)
            IN  /\ Len(RpcsOf(id)) = 1
                /\ RpcsOf(id)[1].method = "CreateJob"
                /\ DOMAIN RpcsOf(id)[1].request = {"thing", "document"}
                /\ LET document == RpcsOf(id)[1].request.document
                   IN  /\ document.kind = "struct"
                       /\ Len(document.fields) = 3
                       /\ {document.fields[k].key : k \in 1..3}
                              = {<<"action">>, <<"target">>, <<"value">>}
                       /\ FindField(document.fields, <<"action">>)
                              = Found(WStr(<<"set">>))
                       /\ FindField(document.fields, <<"target">>)
                              = Found(WStr(firstEntry.key))
                       /\ FindField(document.fields, <<"value">>)
                              = Found(firstEntry.val)
                       /\ \A k \in 2..Len(datapoints_map) :
                              FindField(document.fields, <<"target">>)
                                  # Found(WStr(datapoints_map[k].key))

\* a mapping of two entries whose first entry is not the first data point of
\* the list; its key holds a '.'
C16_Witness ==
    \E id \in SetIds :
        /\ ~MappingOf(id).thrown
        /\ Len(MappingOf(id).value) = 2
        /\ Head(MappingOf(id).value).key # Head(invoked[id].datapoints).path
        /\ "." \in {Head(MappingOf(id).value).key[k] :
                        k \in 1..Len(Head(MappingOf(id).value).key)}
        /\ Len(RpcsOf(id)) = 1
        /\ FindField(RpcsOf(id)[1].request.document.fields, <<"target">>)
               = Found(WStr(P_Name))

----------------------------------------------------------------------------
(* BrokerAsyncGrpcFacade called by any client: the statements of each      *)
(* operation one at a time, the transport running the installed handlers,  *)
(* and caller callbacks that may throw                                     *)

\* the statements of GetDatapoints and SetDatapoints that follow the request
\* a variant that hands the RPC to the stub before it registers the call
Mut_UnarySteps_IssueFirst == <<"applyContextModifier", "issue", "addActiveCall">>

\* a variant that applies the context modifier after the RPC is handed over
Mut_UnarySteps_ModifierLast == <<"addActiveCall", "issue", "applyContextModifier">>

UnarySteps == <<"applyContextModifier", "addActiveCall", "issue">>

\* the statements of Subscribe that follow the request
\* a variant that starts the stream before it installs the handlers
Mut_SubscribeSteps_StartFirst ==
    <<"applyContextModifier", "addActiveCall", "ListenReport", "startCall",
      "onData", "onFinish">>

SubscribeSteps ==
    <<"applyContextModifier", "addActiveCall", "onData", "onFinish",
      "ListenReport", "startCall">>

StepsOf(op) == IF op = "sub" THEN SubscribeSteps ELSE UnarySteps

\* the statement call id executes next, "return" past the last one
StepOf(id) ==
    IF ~callData[id].issued \/ callData[id].pc > Len(StepsOf(invoked[id].op))
    THEN "return"
    ELSE StepsOf(invoked[id].op)[callData[id].pc]

\* the body of grpcResultHandler around a caller callback that throws or not:
\* whether the exception leaves the handler, and whether m_isComplete is set
grpcResultHandlerBody(throws) == [escaped |-> FALSE, isComplete |-> TRUE]

\* the body of the onData handler around streamHandler
onDataBody(throws) == [escaped |-> throws]

\* the body of the onFinish handler when errorHandler is invoked
onFinishBody(throws) == [escaped |-> throws, isComplete |-> ~throws]

\* the registry drops the calls marked complete
pruneCompletedRequests(calls) == {id \in calls : ~callData[id].isComplete}

TargetLists == {<< >>, <<P_Speed>>, <<toDuoPath(P_Name)>>, <<P_Speed, P_Name>>}

DatapointMaps ==
    {EncodeDatapoints(datapoints, << >>).value :
        datapoints \in {<< >>, <<V_Name>>, <<V_Speed, V_Name>>}}

unusedVars == <<result, subscription, codec>>

\* make_shared of the call object and the statements that fill its request;
\* GetDatapoints and SetDatapoints return at once on an empty input
FacadeEnter(inv, call) ==
    /\ Len(invoked) < MaxCalls
    /\ invoked' = Append(invoked, inv)
    /\ callData' = Append(callData,
           IF call.issued
           THEN [issued |-> TRUE, pc |-> 1, method |-> call.method,
                 request |-> call.request, context |-> {}, isComplete |-> FALSE,
                 onData |-> FALSE, onFinish |-> FALSE, captured |-> FALSE]
           ELSE NoCall)
    /\ net' = Append(net, [phase |-> "idle", completions |-> << >>,
                           received |-> << >>])
    /\ handlerLog' = Append(handlerLog, << >>)
    /\ UNCHANGED <<activeCalls, rpcs, unusedVars>>

EnterGetDatapoints ==
    \E datapoints \in DatapointLists :
        FacadeEnter([op |-> "get", datapoints |-> datapoints],
                    GetDatapoints(datapoints))

EnterSetDatapoints ==
    \E datapoints_map \in DatapointMaps :
        FacadeEnter([op |-> "set", datapoints_map |-> datapoints_map],
                    SetDatapoints(datapoints_map))

EnterSubscribe ==
    \E targets \in TargetLists :
        FacadeEnter([op |-> "sub", targets |-> targets], Subscribe(targets))

\* applyContextModifier(*callData)
ApplyContextModifier ==
    \E id \in Ids :
        /\ StepOf(id) = "applyContextModifier"
        /\ callData' = [callData EXCEPT ![id].pc = @ + 1,
                                        ![id].context = applyContextModifier(@)]
        /\ UNCHANGED <<invoked, activeCalls, rpcs, net, handlerLog, unusedVars>>

\* addActiveCall(callData)
AddActiveCall ==
    \E id \in Ids :
        /\ StepOf(id) = "addActiveCall"
        /\ activeCalls' = addActiveCall(activeCalls, id)
        /\ callData' = [callData EXCEPT ![id].pc = @ + 1]
        /\ UNCHANGED <<invoked, rpcs, net, handlerLog, unusedVars>>

\* callData->onData(...)
InstallOnData ==
    \E id \in Ids :
        /\ StepOf(id) = "onData"
        /\ callData' = [callData EXCEPT ![id].pc = @ + 1, ![id].onData = TRUE]
        /\ UNCHANGED <<invoked, activeCalls, rpcs, net, handlerLog, unusedVars>>

\* callData->onFinish(...): the handler captures callData
InstallOnFinish ==
    \E id \in Ids :
        /\ StepOf(id) = "onFinish"
        /\ callData' = [callData EXCEPT ![id].pc = @ + 1, ![id].onFinish = TRUE,
                                        ![id].captured = TRUE]
        /\ UNCHANGED <<invoked, activeCalls, rpcs, net, handlerLog, unusedVars>>

\* m_stub->async()->GetReport / m_job_stub->async()->CreateJob with
\* grpcResultHandler, which captures callData
IssueUnary ==
    \E id \in Ids :
        /\ StepOf(id) = "issue"
        /\ rpcs' = Append(rpcs, [id |-> id, method |-> callData[id].method,
                                 request |-> callData[id].request,
                                 context |-> callData[id].context])
        /\ callData' = [callData EXCEPT ![id].pc = @ + 1, ![id].captured = TRUE]
        /\ net' = [net EXCEPT ![id].phase = "inflight"]
        /\ UNCHANGED <<invoked, activeCalls, handlerLog, unusedVars>>

\* m_stub->async()->ListenReport(&context, &request, &reactor)
ListenReport ==
    \E id \in Ids :
        /\ StepOf(id) = "ListenReport"
        /\ rpcs' = Append(rpcs, [id |-> id, method |-> callData[id].method,
                                 request |-> callData[id].request,
                                 context |-> callData[id].context])
        /\ callData' = [callData EXCEPT ![id].pc = @ + 1]
        /\ net' = [net EXCEPT ![id].phase = "bound"]
        /\ UNCHANGED <<invoked, activeCalls, handlerLog, unusedVars>>

\* callData->startCall()
StartCall ==
    \E id \in Ids :
        /\ StepOf(id) = "startCall"
        /\ callData' = [callData EXCEPT ![id].pc = @ + 1]
        /\ net' = [net EXCEPT ![id].phase = "open"]
        /\ UNCHANGED <<invoked, activeCalls, rpcs, handlerLog, unusedVars>>

\* the transport invokes grpcResultHandler(status): the caller callback that
\* the status selects starts to run
InvokeResultHandler ==
    \E id \in Ids, status \in Statuses :
        /\ net[id].phase = "inflight"
        /\ net' = [net EXCEPT ![id].phase = "grpcResultHandler",
                              ![id].completions = Append(@, status)]
        /\ UNCHANGED <<invoked, callData, activeCalls, rpcs, handlerLog, unusedVars>>

\* the caller callback returns or throws, and grpcResultHandler ends
ResultHandlerEnds ==
    \E id \in Ids, throws \in BOOLEAN :
        /\ net[id].phase = "grpcResultHandler"
        /\ handlerLog' = [handlerLog EXCEPT ![id] =
               Append(@, [handler |-> grpcResultHandler(Head(net[id].completions)),
                          thrown |-> throws,
                          escaped |-> grpcResultHandlerBody(throws).escaped])]
        /\ callData' = [callData EXCEPT ![id].isComplete =
                            grpcResultHandlerBody(throws).isComplete]
        /\ net' = [net EXCEPT ![id].phase = "completed"]
        /\ UNCHANGED <<invoked, activeCalls, rpcs, unusedVars>>

\* the reactor of the stream has read one item: the onData handler, when one
\* is installed, starts to run streamHandler
InvokeOnData ==
    \E id \in Ids :
        /\ net[id].phase = "open"
        /\ Len(net[id].received) < MaxUpdates
        /\ IF callData[id].onData
           THEN /\ net' = [net EXCEPT ![id].phase = "onData",
                                      ![id].received = Append(@, "item")]
                /\ UNCHANGED handlerLog
           ELSE /\ net' = [net EXCEPT ![id].received = Append(@, "item")]
                /\ handlerLog' = [handlerLog EXCEPT ![id] =
                       Append(@, [handler |-> "none", thrown |-> FALSE,
                                  escaped |-> FALSE])]
        /\ UNCHANGED <<invoked, callData, activeCalls, rpcs, unusedVars>>

\* streamHandler returns or throws; an exception that leaves the handler
\* unwinds into the reactor, after which the stream may or may not go on
OnDataEnds ==
    \E id \in Ids, throws \in BOOLEAN :
        /\ net[id].phase = "onData"
        /\ handlerLog' = [handlerLog EXCEPT ![id] =
               Append(@, [handler |-> "data", thrown |-> throws,
                          escaped |-> onDataBody(throws).escaped])]
        /\ \E next \in (IF onDataBody(throws).escaped THEN {"open", "aborted"}
                        ELSE {"open"}) :
               net' = [net EXCEPT ![id].phase = next]
        /\ UNCHANGED <<invoked, callData, activeCalls, rpcs, unusedVars>>

\* the stream ends with `status`: the onFinish handler, when one is
\* installed, runs errorHandler for a status that is not OK and sets
\* m_isComplete otherwise
InvokeOnFinish ==
    \E id \in Ids, status \in Statuses :
        /\ net[id].phase = "open"
        /\ IF callData[id].onFinish /\ onFinish(status)
           THEN /\ net' = [net EXCEPT ![id].phase = "onFinish",
                                      ![id].completions = Append(@, status)]
                /\ UNCHANGED <<callData, handlerLog>>
           ELSE /\ net' = [net EXCEPT ![id].phase = "finished",
                                      ![id].completions = Append(@, status)]
                /\ callData' = [callData EXCEPT ![id].isComplete =
                                    callData[id].onFinish]
                /\ handlerLog' = [handlerLog EXCEPT ![id] =
                       IF callData[id].onFinish THEN @
                       ELSE Append(@, [handler |-> "none", thrown |-> FALSE,
                                       escaped |-> FALSE])]
        /\ UNCHANGED <<invoked, activeCalls, rpcs, unusedVars>>

\* errorHandler returns, and the handler sets m_isComplete, or it throws
OnFinishEnds ==
    \E id \in Ids, throws \in BOOLEAN :
        /\ net[id].phase = "onFinish"
        /\ handlerLog' = [handlerLog EXCEPT ![id] =
               Append(@, [handler |-> "error", thrown |-> throws,
                          escaped |-> onFinishBody(throws).escaped])]
        /\ callData' = [callData EXCEPT ![id].isComplete =
                            onFinishBody(throws).isComplete]
        /\ net' = [net EXCEPT ![id].phase =
                       IF onFinishBody(throws).escaped THEN "aborted" ELSE "finished"]
        /\ UNCHANGED <<invoked, activeCalls, rpcs, unusedVars>>

\* the registry removes the calls that are marked complete
PruneCompletedRequests ==
    /\ pruneCompletedRequests(activeCalls) # activeCalls
    /\ activeCalls' = pruneCompletedRequests(activeCalls)
    /\ UNCHANGED <<invoked, callData, rpcs, net, handlerLog, unusedVars>>

NextFacade ==
    \/ EnterGetDatapoints
    \/ EnterSetDatapoints
    \/ EnterSubscribe
    \/ ApplyContextModifier
    \/ AddActiveCall
    \/ InstallOnData
    \/ InstallOnFinish
    \/ IssueUnary
    \/ ListenReport
    \/ StartCall
    \/ InvokeResultHandler
    \/ ResultHandlerEnds
    \/ InvokeOnData
    \/ OnDataEnds
    \/ InvokeOnFinish
    \/ OnFinishEnds
    \/ PruneCompletedRequests

SpecFacade == Init /\ [][NextFacade]_vars

----------------------------------------------------------------------------
(* Claims about the facade *)

\* the calls the facade made a call object and a request for
IssuedIds == {id \in Ids : callData[id].issued}

StreamIds == {id \in IssuedIds : invoked[id].op = "sub"}

\* the string is a path delimited by '/' only
SlashDelimited(path) == "." \notin {path[k] : k \in 1..Len(path)}

\* C17: every request handed to the transport has thing = "vss"; every get
\* request carries the first requested path with every '.' replaced by '/';
\* every subscribe request, for every target list passed to Subscribe, the
\* empty list included, has needs_initial_value = true and a filters list
\* of exactly one slash-delimited path.
C17_WireShape ==
    \A i \in 1..Len(rpcs) :
        LET request == rpcs[i].request
            inv == invoked[rpcs[i].id]
        IN  /\ request.thing = <<"vss">>
            /\ rpcs[i].method = "GetReport" =>
                   request.path = StrReplace(Head(inv.datapoints), ".", "/")
            /\ rpcs[i].method = "ListenReport" =>
                   /\ request.needs_initial_value
                   /\ Len(request.filters) = 1
                   /\ SlashDelimited(request.filters[1])

\* the transport was handed a subscribe request without any filter
C17_NoFilter ==
    \E i \in 1..Len(rpcs) :
        /\ rpcs[i].method = "ListenReport"
        /\ invoked[rpcs[i].id].targets = << >>
        /\ rpcs[i].request.thing = <<"vss">>
        /\ rpcs[i].request.needs_initial_value
        /\ rpcs[i].request.filters = << >>

\* C18: an exception raised inside the success or data callback of
\* GetDatapoints, SetDatapoints or Subscribe never leaves the handler the
\* facade gave to the transport; and a call whose callback threw is marked
\* complete once its terminal completion has been handled.
C18_ExceptionsAreContained ==
    \A id \in IssuedIds :
        /\ \A k \in 1..Len(handlerLog[id]) :
               handlerLog[id][k].handler \in {"reply", "data"} =>
                   ~handlerLog[id][k].escaped
        /\ (/\ net[id].phase \in {"completed", "finished"}
            /\ \E k \in 1..Len(handlerLog[id]) :
                   /\ handlerLog[id][k].handler \in {"reply", "data"}
                   /\ handlerLog[id][k].thrown) => callData[id].isComplete

\* the reply callback of a unary call threw: nothing left grpcResultHandler
\* and the call is marked complete
C18_UnaryContained ==
    \E id \in IssuedIds :
        /\ invoked[id].op \in {"get", "set"}
        /\ net[id].phase = "completed"
        /\ handlerLog[id] = <<[handler |-> "reply", thrown |-> TRUE,
                               escaped |-> FALSE]>>
        /\ callData[id].isComplete

\* the statements of Subscribe up to startCall have run for stream id
Started(id) == net[id].phase \notin {"idle", "bound"}

\* C19: in every execution of Subscribe the metadata modifier is applied, the
\* call is registered and the data and finish handlers are installed before
\* the stream is started: no item and no terminal status is delivered to a
\* call without its handler, and while the stream may deliver, the call is
\* registered.
C19_HandlersBeforeStart ==
    \A id \in StreamIds :
        /\ Started(id) =>
               /\ Metadata \subseteq callData[id].context
               /\ callData[id].onData
               /\ callData[id].onFinish
               /\ id \in activeCalls \/ callData[id].isComplete
        /\ \A i \in 1..Len(rpcs) :
               rpcs[i].id = id => Metadata \subseteq rpcs[i].context
        /\ net[id].phase \in {"open", "onData", "onFinish"} => id \in activeCalls
        /\ \A k \in 1..Len(handlerLog[id]) : handlerLog[id][k].handler # "none"

\* a stream delivered two items and a terminal status to installed handlers
C19_Witness ==
    \E id \in StreamIds :
        /\ Len(net[id].received) = 2
        /\ net[id].phase = "finished"
        /\ [k \in 1..Len(handlerLog[id]) |-> handlerLog[id][k].handler]
               = <<"data", "data", "error">>
        /\ Metadata \subseteq callData[id].context

\* the transport may still invoke a handler of call id, or is running one
MayBeCalled(id) ==
    net[id].phase \in {"bound", "inflight", "grpcResultHandler",
                       "open", "onData", "onFinish"}

\* C20: every call handed to the transport is registered before, and stays
\* referenced by the registry and by its completion handler while the
\* transport may still invoke a handler on it; its completion flag is false
\* until the terminal handler has run the caller's callback, and true only
\* after; the flag of a stream is false across all item deliveries.
C20_CallLifecycle ==
    \A id \in IssuedIds :
        /\ (\E i \in 1..Len(rpcs) : rpcs[i].id = id) =>
               id \in activeCalls \/ callData[id].isComplete
        /\ MayBeCalled(id) => id \in activeCalls
        /\ net[id].phase \in {"inflight", "grpcResultHandler", "open",
                              "onData", "onFinish"} => callData[id].captured
        /\ (net[id].phase = "idle" \/ MayBeCalled(id)) => ~callData[id].isComplete
        /\ callData[id].isComplete => net[id].phase \in {"completed", "finished"}

\* the step from a state to the next sets no completion flag except at the
\* end of a terminal handler
C20_FlagSetByTerminalHandler ==
    [][\A id \in IssuedIds :
           (~callData[id].isComplete /\ callData'[id].isComplete) =>
               /\ net[id].phase \in {"grpcResultHandler", "onFinish", "open"}
               /\ net'[id].phase \in {"completed", "finished"}]_vars

\* a stream in the middle of the error callback of its finish, after two
\* item deliveries: registered and not complete
C20_Witness ==
    \E id \in StreamIds :
        /\ Len(net[id].received) = 2
        /\ Len(handlerLog[id]) = 2
        /\ net[id].phase = "onFinish"
        /\ id \in activeCalls
        /\ ~callData[id].isComplete

\* a unary call whose callback is running: registered and not complete
C20_UnaryInCallback ==
    \E id \in IssuedIds :
        /\ net[id].phase = "grpcResultHandler"
        /\ id \in activeCalls
        /\ ~callData[id].isComplete

\* C21: every RPC handed to the transport by GetDatapoints, SetDatapoints or
\* Subscribe carries, in the context it is issued with, every metadata pair
\* that the context modifier installed at client construction adds; no RPC
\* is handed over before the modifier has been applied to its call.
C21_ModifierAppliedBeforeIssue ==
    \A i \in 1..Len(rpcs) :
        /\ rpcs[i].method \in {"GetReport", "CreateJob", "ListenReport"}
        /\ Metadata \subseteq rpcs[i].context
        /\ rpcs[i].context = applyContextModifier({})

\* a job RPC and nothing else was handed over, with the metadata
C21_Witness ==
    /\ Len(rpcs) = 1
    /\ rpcs[1].method = "CreateJob"
    /\ Metadata # {}
    /\ Metadata \subseteq rpcs[1].context
    /\ net[rpcs[1].id].phase = "inflight"

\* Following the segments from `index` on as keys of nested structs, without
\* any fallback: "value" when every segment was a key, "early" when a value
\* that is not a struct is met with segments left, "composite" when the
\* struct met has no key for the segment but one for the remaining segments
\* joined by '/', "nokey" when it has neither.
RECURSIVE KeyWalk(_, _, _)
KeyWalk(current, segments, index) ==
    IF index > Len(segments) THEN [kind |-> "value", value |-> current]
    ELSE IF current.kind # "struct" THEN [kind |-> "early", value |-> current]
    ELSE IF \E k \in 1..Len(current.fields) : current.fields[k].key = segments[index]
    THEN KeyWalk(FindField(current.fields, segments[index]).value, segments, index + 1)
    ELSE IF \E k \in 1..Len(current.fields) :
                current.fields[k].key = Combined(segments, index)
    THEN [kind |-> "composite",
          value |-> FindField(current.fields, Combined(segments, index)).value]
    ELSE [kind |-> "nokey"]

\* C22: for every tree of nested structs and every list of segments: when
\* following the segments as keys reaches a value, locateLeaf returns that
\* value; when a value that is not a struct is reached before the segments
\* are exhausted, it returns that value; when the struct reached has no key
\* for the segment under any fallback, it returns NotFound.
C22_LocateLeafFollowsKeys ==
    codec.op = "locateLeaf" =>
        LET walk == KeyWalk(codec.root, codec.segments, 1)
        IN  /\ walk.kind = "value" => codec.out = Found(walk.value)
            /\ walk.kind = "early" => codec.out = Found(walk.value)
            /\ walk.kind = "nokey" => codec.out = NotFound

\* {"a": {"b": 5}} with ["a", "b"] gives 5
C22_Witness ==
    /\ codec.op = "locateLeaf"
    /\ codec.root = WStruct(<<Field(<<"a">>, WStruct(<<Field(<<"b">>, WNum(50))>>))>>)
    /\ codec.segments = <<<<"a">>, <<"b">>>>
    /\ codec.out = Found(WNum(50))

\* a scalar root with ["a"] gives the root
C22_EarlyStop ==
    /\ codec.op = "locateLeaf"
    /\ codec.root = WNum(50)
    /\ codec.segments = <<<<"a">>>>
    /\ codec.out = Found(WNum(50))

\* {"a": {"b": 5}} with ["a", "c"] gives NotFound
C22_NotFound ==
    /\ codec.op = "locateLeaf"
    /\ codec.root = WStruct(<<Field(<<"a">>, WStruct(<<Field(<<"b">>, WNum(50))>>))>>)
    /\ codec.segments = <<<<"a">>, <<"c">>>>
    /\ codec.out = NotFound

\* C23: when the struct reached at segment i has no key for segment i but a
\* key equal to the segments i..end joined by '/', locateLeaf returns the
\* value stored under that composite key, whatever its kind; the segments the
\* composite key consumed are not looked up again inside that value.
C23_CompositeKeyIsReturned ==
    codec.op = "locateLeaf" =>
        LET walk == KeyWalk(codec.root, codec.segments, 1)
        IN  walk.kind = "composite" => codec.out = Found(walk.value)

\* a scalar under a composite key is returned
C23_ScalarUnderCompositeKey ==
    /\ codec.op = "locateLeaf"
    /\ codec.root = WStruct(<<Field(<<"a", "/", "b">>, WNum(50))>>)
    /\ codec.segments = <<<<"a">>, <<"b">>>>
    /\ codec.out = Found(WNum(50))

\* the segments joined by '.'
RECURSIVE Dotted(_)
Dotted(segments) ==
    IF segments = << >> THEN << >>
    ELSE IF Len(segments) = 1 THEN segments[1]
    ELSE segments[1] \o <<".">> \o Dotted(Tail(segments))

\* one pair per leaf of the tree that is not a struct: the keys on the way to
\* the leaf, after those of the prefix, and the leaf
RECURSIVE KeysAndLeaves(_, _)
KeysAndLeaves(value, keys) ==
    IF value.kind # "struct" THEN << [keys |-> keys, leaf |-> value] >>
    ELSE IF value.fields = << >> THEN << >>
    ELSE KeysAndLeaves(Head(value.fields).val, Append(keys, Head(value.fields).key))
         \o KeysAndLeaves(WStruct(Tail(value.fields)), keys)

\* C24: for every nested struct tree and prefix, collectValuePaths emits
\* exactly one (path, leaf) pair per leaf of the tree that is not a struct and
\* nothing else, the path being the prefix followed by the keys on the way to
\* the leaf joined by '.'; two distinct leaves never receive the same path.
C24_FlattenEmitsDottedPaths ==
    codec.op = "collectValuePaths" =>
        LET leaves == KeysAndLeaves(codec.value, codec.currentPath)
        IN  /\ Len(codec.out) = Len(leaves)
            /\ \A i \in 1..Len(leaves) :
                   /\ codec.out[i].leaf = leaves[i].leaf
                   /\ codec.out[i].path = Dotted(leaves[i].keys)
            /\ \A i, j \in 1..Len(codec.out) :
                   i # j => codec.out[i].path # codec.out[j].path

\* {"x": {"y": 1, "z": 2}} with prefix "p" gives the two leaves under paths
\* joined by '/'
C24_SlashJoined ==
    /\ codec.op = "collectValuePaths"
    /\ codec.value = S_Nested
    /\ codec.currentPath = <<<<"p">>>>
    /\ codec.out = << [path |-> <<"p", "/", "x", "/", "y">>, leaf |-> WNum(10)],
                      [path |-> <<"p", "/", "x", "/", "z">>, leaf |-> WNum(20)] >>

\* the index of the first value of the list whose path is smallest
FirstOfSmallestPath(datapoints) ==
    CHOOSE i \in 1..Len(datapoints) :
        /\ \A j \in 1..Len(datapoints) : ~StrLess(datapoints[j].path, datapoints[i].path)
        /\ \A j \in 1..(i - 1) : datapoints[j].path # datapoints[i].path

\* C25: the entry that setDatapoints transmits does not depend on the order
\* of the list: its target is the smallest path of the list in lexicographic
\* order, for every permutation, and its value is the wire value of the first
\* value of the list that has this path.
C25_SmallestPathFirstValue ==
    (codec.op = "setDatapoints" /\ ~codec.out.thrown) =>
        LET kept == codec.datapoints[FirstOfSmallestPath(codec.datapoints)]
            document == codec.out.value.request.document
        IN  /\ codec.out.value.issued
            /\ FindField(document.fields, <<"target">>) = Found(WStr(kept.path))
            /\ FindField(document.fields, <<"value">>)
                   = Found(toDuoValue(kept).value)

\* the smallest path comes last in the list and twice, with different values
C25_Witness ==
    /\ codec.op = "setDatapoints"
    /\ codec.datapoints = <<V_Name, V_Speed2, V_Speed>>
    /\ StrLess(P_Name, P_Speed)
    /\ ~codec.out.thrown
    /\ FindField(codec.out.value.request.document.fields, <<"target">>)
           = Found(WStr(P_Name))

\* of two values of one path, both valid, the first is sent
C25_FirstOfEqualPaths ==
    /\ codec.op = "setDatapoints"
    /\ codec.datapoints = <<V_Speed2, V_Speed>>
    /\ toDuoValue(V_Speed2) # toDuoValue(V_Speed)
    /\ FindField(codec.out.value.request.document.fields, <<"value">>)
           = Found(toDuoValue(V_Speed2).value)

\* the facade calls made with an empty path list or an empty mapping
EmptyInputIds ==
    {id \in Ids : \/ invoked[id].op = "get" /\ invoked[id].datapoints = << >>
                  \/ invoked[id].op = "set" /\ invoked[id].datapoints_map = << >>}

C26_EmptyInputLeavesRegistry ==
    [][(Len(invoked') > Len(invoked) /\ Len(invoked') \in EmptyInputIds')
           => (activeCalls' = activeCalls /\ rpcs' = rpcs)]_vars

C26_EmptyGet ==
    \E id \in EmptyInputIds : invoked[id].op = "get" /\ rpcs = << >>

----------------------------------------------------------------------------
(* Claims about the items of a streamed update *)

\* the non-struct leaves under a value that are reached through at least one
\* non-empty key; `keyed` tells whether a non-empty key was already passed
RECURSIVE KeyedLeafCount(_, _)
RECURSIVE KeyedLeafCountOfFields(_, _)
KeyedLeafCountOfFields(fields, keyed) ==
    IF fields = << >> THEN 0
    ELSE KeyedLeafCount(Head(fields).val, keyed \/ Head(fields).key # << >>)
         + KeyedLeafCountOfFields(Tail(fields), keyed)

KeyedLeafCount(value, keyed) ==
    IF value.kind = "struct" THEN KeyedLeafCountOfFields(value.fields, keyed)
    ELSE IF keyed THEN 1 ELSE 0

\* the items one top-level value of an update is said to insert
ItemCountOfValue(value) ==
    CASE value.kind \in {"number", "string"} -> 1
      [] value.kind = "struct" -> KeyedLeafCount(value, FALSE)
      [] OTHER -> 0

RECURSIVE ItemCountOfValues(_)
ItemCountOfValues(values) ==
    IF values = << >> THEN 0
    ELSE ItemCountOfValue(Head(values)) + ItemCountOfValues(Tail(values))

RECURSIVE ItemCountOfUpdates(_)
ItemCountOfUpdates(updates) ==
    IF updates = << >> THEN 0
    ELSE ItemCountOfValues(Head(updates).items) + ItemCountOfUpdates(Tail(updates))

\* C27: the number of items inserted for a streamed update equals the number
\* of its top-level numbers and strings plus the number of non-struct leaves
\* reached through at least one non-empty key under its top-level structs
\* (bool, null and list at the top level insert nothing); every item has an
\* empty data-point map and carries the leaf value as its response item.
C27_ItemCountOfUpdate ==
    \A id \in SubIds :
        LET items == ItemsOf(subscription[id])
        IN  /\ Len(items) = ItemCountOfUpdates(net[id].received)
            /\ \A i \in 1..Len(items) :
                   /\ empty(items[i].reply)
                   /\ items[i].reply.resp.hasItem
                   /\ items[i].reply.resp.item.kind # "struct"

\* every item has an empty map and carries a non-struct leaf, and an update
\* inserts one item per top-level number or string and one per non-struct
\* leaf under a top-level struct, whatever its keys
C27_OneItemPerLeafUnderAnyKey ==
    \A id \in SubIds :
        LET items == ItemsOf(subscription[id])
        IN  /\ Len(items) = Len(DeliveredOfUpdates(net[id].received))
            /\ \A i \in 1..Len(items) :
                   /\ empty(items[i].reply)
                   /\ items[i].reply.resp.hasItem
                   /\ items[i].reply.resp.item.kind # "struct"

\* one update holding the struct {"": 3.0} and the number 2.0 inserted two
\* items, the first of them the leaf under the empty key
C27_LeafUnderEmptyKeyInserted ==
    \E id \in SubIds :
        /\ net[id].received = <<ListenResponse(<<S_EmptyKey, WNum(20)>>)>>
        /\ Len(ItemsOf(subscription[id])) = 2
        /\ ItemsOf(subscription[id])[1].reply.resp.item = WNum(30)

\* one update holding true, a nested struct, a number and null inserted the
\* two leaves of the struct and the number
C27_NestedUpdate ==
    \E id \in SubIds :
        /\ net[id].received = <<ListenResponse(<<WBool(TRUE), S_Nested, WNum(20), WNull>>)>>
        /\ Len(ItemsOf(subscription[id])) = 3

----------------------------------------------------------------------------
(* Claims about a get response without an item *)

\* the getDatapoints calls completed once, with OK and a response without item
CompletedWithoutItem ==
    {id \in Ids : /\ invoked[id].op = "get"
                  /\ net[id].phase = "completed"
                  /\ Len(net[id].completions) = 1
                  /\ Head(net[id].completions).ok
                  /\ ~callData[id].response.hasItem}

\* C28: when the transport completes getDatapoints with OK and the response
\* carries no item, the AsyncResult resolves as Value with a reply whose
\* empty() is true, on which getUntyped raises for every path and get
\* returns null.
C28_NoItemIsEmptyReply ==
    \A id \in CompletedWithoutItem :
        /\ result[id].state = "value"
        /\ empty(result[id].value)
        /\ \A path \in {P_Speed, P_Name} :
               /\ getUntyped(result[id].value, path).thrown
               /\ get(result[id].value, path) = NullPtr

\* a response without an item whose debug text has at least four characters
\* resolved the AsyncResult with an empty reply
C28_ResolvedWhenTextIsLong ==
    \E id \in CompletedWithoutItem :
        /\ callData[id].response.other >= FindTgtLen - 1
        /\ result[id].state = "value"
        /\ empty(result[id].value)
        /\ get(result[id].value, P_Speed) = NullPtr

\* a response without an item and without any other content left the
\* AsyncResult unresolved: the reply callback threw before insertResult
C28_UnresolvedWhenTextIsShort ==
    \E id \in CompletedWithoutItem :
        /\ callData[id].response = NoItem(0)
        /\ result[id] = EmptyResult
        /\ handlerLog[id] = <<[handler |-> "reply", thrown |-> TRUE]>>

----------------------------------------------------------------------------
(* Claims about encoding errors of setDatapoints *)

\* the value cannot be encoded: it is valid and its type tag is unsupported
\* or is not the type of what it stores
Unencodable(dataPointValue) ==
    /\ isValid(dataPointValue)
    /\ \/ dataPointValue.type \notin SupportedTypes
       \/ ~requireTyped(dataPointValue.type, dataPointValue.data)

HasUnencodable(datapoints) ==
    \E i \in 1..Len(datapoints) : Unencodable(datapoints[i])

\* C29: when toDuoValue raises for any value of the list, setDatapoints
\* raises to its caller before the facade is invoked: no call is registered,
\* no RPC is issued and no AsyncResult is returned; a value in a failure
\* state never raises and always encodes to null.
C29_EncodingErrorHasNoSideEffect ==
    \A id \in SetIds :
        LET datapoints == invoked[id].datapoints
        IN  /\ HasUnencodable(datapoints) =>
                   /\ result[id] = NoResult
                   /\ ~callData[id].issued
                   /\ id \notin activeCalls
                   /\ \A i \in 1..Len(rpcs) : rpcs[i].id # id
                   /\ handlerLog[id] = << >>
            /\ ~HasUnencodable(datapoints) => result[id] # NoResult
            /\ \A i \in 1..Len(datapoints) :
                   ~isValid(datapoints[i]) =>
                       toDuoValue(datapoints[i]) = Returned(WNull)

\* setDatapoints raised for a list whose second value has an unsupported tag
C29_Witness ==
    \E id \in SetIds :
        /\ invoked[id].datapoints = <<V_Speed, V_Unsupported>>
        /\ result[id] = NoResult
        /\ rpcs = << >>
        /\ activeCalls = {}

\* setDatapoints raised for a list whose first value stores another type
\* than it declares
C29_TypeMismatch ==
    \E id \in SetIds :
        /\ invoked[id].datapoints = <<V_Mismatch, V_Speed>>
        /\ result[id] = NoResult
        /\ rpcs = << >>

\* a failed value of an unsupported type was sent as null
C29_FailedValueSentAsNull ==
    \E id \in SetIds :
        /\ invoked[id].datapoints = <<V_UnsupportedNA>>
        /\ callData[id].issued
        /\ FindField(callData[id].request.document.fields, <<"value">>) = Found(WNull)

----------------------------------------------------------------------------
(* Claims about path delimiters *)

Contains(path, atom) == \E i \in 1..Len(path) : path[i] = atom

\* C30: toDuoPath is idempotent and its result contains no '.';
\* toInternalPath is idempotent and its result contains no '/';
\* toInternalPath(toDuoPath(p)) = p for every path p without '/'; and the
\* filter sent by subscribe, normalized once in BrokerClient and once in the
\* facade, is the once-normalized path.
C30_DelimiterNormalization ==
    codec.op = "normalize" =>
        /\ codec.duoTwice = codec.duo
        /\ ~Contains(codec.duo, ".")
        /\ codec.internalTwice = codec.internal
        /\ ~Contains(codec.internal, "/")
        /\ ~Contains(codec.path, "/") => codec.back = codec.path
        /\ codec.subscribed.issued
        /\ codec.subscribed.request.filters = <<codec.duo>>

\* a path with two dots and no slash was normalized and came back
C30_Witness ==
    /\ codec.op = "normalize"
    /\ codec.path = <<"a", ".", "a", ".">>
    /\ codec.duo = <<"a", "/", "a", "/">>
    /\ codec.back = codec.path
    /\ codec.subscribed.request.filters = <<codec.duo>>

\* a path that mixes both delimiters does not come back from the round trip
C30_MixedPathDoesNotComeBack ==
    /\ codec.op = "normalize"
    /\ codec.path = <<"a", "/", "a", ".">>
    /\ codec.duo = <<"a", "/", "a", "/">>
    /\ codec.back = <<"a", ".", "a", ".">>

====
